---- MODULE Spec2Model ----
(***************************************************************************)
(* Verification model of gfx-ssl-v2-sdk:                                   *)
(*   - the rotating oracle price history (OraclePriceHistory, its push and *)
(*     its newest-first AccountHistoryIterator),                           *)
(*   - the account mirror of the quote_check GfxAmm (update/ready/quote),  *)
(*   - the account mirror of the jupiter GfxAmm (update/quote).            *)
(* Each part has its own specification over the shared variables.          *)
(***************************************************************************)
EXTENDS Integers, Sequences, FiniteSets, TLC

VARIABLES
    num_updates,    \* OraclePriceHistory.num_updates
    price_history,  \* OraclePriceHistory.price_history, indexed 0..255
    pushed,         \* history variable: the entries given to push, in call order
    pair,           \* the Pair account the mirrors were constructed from
    chain,          \* the ledger read by the account-fetch collaborator
    qc,             \* the quote_check GfxAmm
    qc_ret,         \* what the last call on qc returned
    jup,            \* the jupiter GfxAmm
    jup_ret,        \* what the last call on jup returned
    rounds,         \* fetch-and-update rounds done on jup (get_quote's loop)
    keys_before,    \* jup's tracked keys before the last round
    input_token_history,  \* the second OraclePriceHistory of bollinger_band
    band_ret,       \* the last bollinger_band call: its windows and its result
    call_args,      \* the arguments of a call of a function without state
    call_ret,       \* what that call returned
    checker,        \* the quote_check process: its position, mirrors, counters
    sdk,            \* the sdk GfxAmm
    sdk_ret         \* the last call on the sdk GfxAmm and its result

vars == <<num_updates, price_history, pushed, pair, chain, qc, qc_ret,
          jup, jup_ret, rounds, keys_before, input_token_history, band_ret,
          call_args, call_ret, checker, sdk, sdk_ret>>

ringVars == <<num_updates, price_history, pushed>>
qcVars == <<qc, qc_ret>>
jupVars == <<jup, jup_ret, rounds, keys_before>>
bandVars == <<input_token_history, band_ret>>
callVars == <<call_args, call_ret>>
checkVars == <<checker>>
sdkVars == <<sdk, sdk_ret>>

(***************************************************************************)
(* Part 1.  OraclePriceHistory                                             *)
(***************************************************************************)

\* Max capacity of the oracle's price history.
NUM_HISTORICAL_PRICE_ENTRIES == 256

\* Pushes explored from the zeroed default (more than one wrap of the array).
MaxPushes == 260

\* The first FreePushes pushes draw their entry from EntryChoices; the later
\* ones push the entry LaterEntry(k), distinct for every push number k.
FreePushes == 2

\* HistoricalPrice::default(): the zeroed entry.
ZeroEntry == [num |-> 0, scale |-> 0, slot |-> 0]

EntryChoices ==
    { ZeroEntry,
      [num |-> 1000, scale |-> 2, slot |-> 1],
      [num |-> 2000, scale |-> 2, slot |-> 2] }

LaterEntry(k) == [num |-> 1000 + k, scale |-> 2, slot |-> k]

\* OraclePriceHistory::default(): Self::zeroed().
ZeroedHistory ==
    [num_updates |-> 0,
     price_history |-> [i \in 0..(NUM_HISTORICAL_PRICE_ENTRIES - 1) |-> ZeroEntry]]

\* The history held in the variables.
History == [num_updates |-> num_updates, price_history |-> price_history]

\* most_recent_index: self.num_updates as usize % NUM_HISTORICAL_PRICE_ENTRIES
most_recent_index(h) == h.num_updates % NUM_HISTORICAL_PRICE_ENTRIES

\* most_recent_entry: &self.price_history[self.most_recent_index()]
most_recent_entry(h) == h.price_history[most_recent_index(h)]

\* A push that writes at num_updates instead of num_updates + 1.
push_at_count(h, historical_price) ==
    [num_updates |-> h.num_updates + 1,
     price_history |->
        [h.price_history EXCEPT
            ![h.num_updates % NUM_HISTORICAL_PRICE_ENTRIES] = historical_price]]

\* push: write at (num_updates + 1) % 256, then increment num_updates.
push(h, historical_price) ==
    LET offset == (h.num_updates + 1) % NUM_HISTORICAL_PRICE_ENTRIES
    IN  [num_updates |-> h.num_updates + 1,
         price_history |->
            [h.price_history EXCEPT ![offset] = historical_price]]

\* A latest_price that takes a history as empty while nothing was pushed.
latest_price_by_count(h) ==
    IF h.num_updates = 0
    THEN [ok |-> FALSE, err |-> "PriceHistoryEmpty"]
    ELSE [ok |-> TRUE, price |-> most_recent_entry(h)]

\* latest_price: the most recent entry, PriceHistoryEmpty when that entry
\* equals HistoricalPrice::default().
latest_price(h) ==
    LET price == most_recent_entry(h)
    IN  IF price = ZeroEntry
        THEN [ok |-> FALSE, err |-> "PriceHistoryEmpty"]
        ELSE [ok |-> TRUE, price |-> price]

\* AccountHistoryIterator::from: counter 0, index most_recent_index.
IterFrom(h) == [counter |-> 0, index |-> most_recent_index(h)]

\* An iterator step that forgets the capacity bound on counter.
IterHasNextUnbounded(h, it) == it.counter < h.num_updates

\* The guard of AccountHistoryIterator::next.
IterHasNext(h, it) ==
    /\ it.counter < NUM_HISTORICAL_PRICE_ENTRIES
    /\ it.counter < h.num_updates

\* The iterator after one successful next(): counter + 1, index one back
\* with wraparound.
IterAdvance(it) ==
    [counter |-> it.counter + 1,
     index |-> IF it.index = 0
               THEN NUM_HISTORICAL_PRICE_ENTRIES - 1
               ELSE it.index - 1]

\* n calls of next() from iterator state it, or fewer when one of them
\* returns None: the array indices read, the iterator as the calls left it,
\* and whether None was returned. The calls are made in order, first those
\* of the first half, then the others from the state the first half left.
RECURSIVE IterRun(_, _, _)
IterRun(h, it, n) ==
    IF n = 1
    THEN IF IterHasNext(h, it)
         THEN [idx |-> <<it.index>>, it |-> IterAdvance(it), done |-> FALSE]
         ELSE [idx |-> <<>>, it |-> it, done |-> TRUE]
    ELSE LET a == IterRun(h, it, n \div 2)
         IN  IF a.done THEN a
             ELSE LET b == IterRun(h, a.it, n - (n \div 2))
                  IN  [idx |-> a.idx \o b.idx, it |-> b.it, done |-> b.done]

\* The array indices next() reads until it returns None, in order; it
\* returns None after at most num_updates items.
IterIndices(h, it) == IterRun(h, it, h.num_updates + 1).idx

\* The entries the iterator yields, newest first.
IterItems(h) ==
    LET idx == IterIndices(h, IterFrom(h))
    IN  [i \in 1..Len(idx) |-> h.price_history[idx[i]]]

\* The entry given to push number k (1-based).
PushInputs(k) == IF k <= FreePushes THEN EntryChoices ELSE {LaterEntry(k)}

RingInit ==
    /\ num_updates = ZeroedHistory.num_updates
    /\ price_history = ZeroedHistory.price_history
    /\ pushed = <<>>

Push ==
    /\ num_updates < MaxPushes
    /\ \E e \in PushInputs(num_updates + 1) :
          LET h == push(History, e)
          IN  /\ num_updates' = h.num_updates
              /\ price_history' = h.price_history
              /\ pushed' = Append(pushed, e)

(***************************************************************************)
(* Part 1b.  rust_decimal::Decimal as bollinger_band uses it               *)
(*                                                                         *)
(* A Decimal is a sign, a 96-bit mantissa and a scale 0..28.  Mantissas    *)
(* are naturals held as little-endian sequences of limbs in base 10^4.     *)
(* Decimal equality is numerical (1.0 = 1.00): every operation returns its *)
(* result with the trailing zeros of the fraction removed, so that equal   *)
(* numbers are equal records.                                              *)
(***************************************************************************)

LIMB == 10000

\* The largest scale of a Decimal.
MAX_SCALE == 28

\* 2^96 = 79228162514264337593543950336: the first mantissa that does not fit.
TwoPow96 == << 336, 4395, 5935, 4337, 1426, 1625, 9228, 7 >>

\* The statements of a function body run in order: a value is computed
\* before the statements after it use it.
Computed(x) == x = x

\* Removes the zero limbs at the most significant end.
RECURSIVE BigNorm(_)
BigNorm(a) ==
    IF a = << >> THEN << >>
    ELSE IF a[Len(a)] = 0 THEN BigNorm(SubSeq(a, 1, Len(a) - 1))
    ELSE a

RECURSIVE BigFromNat(_)
BigFromNat(n) == IF n = 0 THEN << >> ELSE << n % LIMB >> \o BigFromNat(n \div LIMB)

RECURSIVE BigAddC(_, _, _)
BigAddC(a, b, carry) ==
    IF a = << >> /\ b = << >>
    THEN (IF carry = 0 THEN << >> ELSE << carry >>)
    ELSE LET x == IF a = << >> THEN 0 ELSE Head(a)
             y == IF b = << >> THEN 0 ELSE Head(b)
             t == x + y + carry
         IN  << t % LIMB >> \o
             BigAddC(IF a = << >> THEN a ELSE Tail(a),
                     IF b = << >> THEN b ELSE Tail(b), t \div LIMB)

BigAdd(a, b) == BigAddC(a, b, 0)

\* a - b for a >= b, before normalisation.
RECURSIVE BigSubB(_, _, _)
BigSubB(a, b, borrow) ==
    IF a = << >> THEN << >>
    ELSE LET y == IF b = << >> THEN 0 ELSE Head(b)
             t == Head(a) - y - borrow
         IN  << IF t < 0 THEN t + LIMB ELSE t >> \o
             BigSubB(Tail(a), IF b = << >> THEN b ELSE Tail(b),
                     IF t < 0 THEN 1 ELSE 0)

BigSub(a, b) == BigNorm(BigSubB(a, b, 0))

\* -1, 0 or 1 as a < b, a = b or a > b (both normalised).
RECURSIVE BigCmp(_, _)
BigCmp(a, b) ==
    IF Len(a) # Len(b) THEN (IF Len(a) < Len(b) THEN -1 ELSE 1)
    ELSE IF a = << >> THEN 0
    ELSE IF a[Len(a)] # b[Len(b)]
    THEN (IF a[Len(a)] < b[Len(b)] THEN -1 ELSE 1)
    ELSE BigCmp(BigNorm(SubSeq(a, 1, Len(a) - 1)),
                BigNorm(SubSeq(b, 1, Len(b) - 1)))

\* a * k for a natural k <= 10^5.
RECURSIVE BigMulSmallC(_, _, _)
BigMulSmallC(a, k, carry) ==
    IF a = << >> THEN BigFromNat(carry)
    ELSE LET t == Head(a) * k + carry
         IN  << t % LIMB >> \o BigMulSmallC(Tail(a), k, t \div LIMB)

BigMulSmall(a, k) == BigNorm(BigMulSmallC(a, k, 0))

RECURSIVE BigMul(_, _)
BigMul(a, b) ==
    IF a = << >> \/ b = << >> THEN << >>
    ELSE LET rest == BigMul(a, Tail(b))
             low == BigMulSmall(a, Head(b))
         IN  IF rest = << >> THEN low
             ELSE IF low = << >> THEN << 0 >> \o rest
             ELSE BigNorm(BigAdd(low, << 0 >> \o rest))

\* Quotient (not normalised) and remainder of a by a natural 0 < d <= 2 * 10^5.
RECURSIVE BigDivSmallR(_, _)
BigDivSmallR(a, d) ==
    IF a = << >> THEN [q |-> << >>, r |-> 0]
    ELSE LET rest == BigDivSmallR(Tail(a), d)
             cur == rest.r * LIMB + Head(a)
         IN  CASE Computed(rest) -> [q |-> << cur \div d >> \o rest.q, r |-> cur % d]

BigDivSmall(a, d) ==
    LET x == BigDivSmallR(a, d) IN [q |-> BigNorm(x.q), r |-> x.r]

\* 10^i for i in 0..3.
Pow10(i) == CASE i = 0 -> 1 [] i = 1 -> 10 [] i = 2 -> 100 [] i = 3 -> 1000

\* a * 10^k: k \div 4 zero limbs below a * 10^(k % 4).
BigMulPow10(a, k) ==
    IF a = << >> THEN << >>
    ELSE [n \in 1..(k \div 4) |-> 0] \o BigMulSmall(a, Pow10(k % 4))

BigOdd(a) == a # << >> /\ a[1] % 2 = 1

\* a with its k lowest decimal digits cut off: the quotient, the highest
\* digit cut off and whether a lower digit cut off was not zero.
BigChop(a, k) ==
    LET j == k \div 4
        i == k % 4
        x == BigDivSmall(SubSeq(a, j + 1, Len(a)), Pow10(i))
        low == \E n \in 1..j : n <= Len(a) /\ a[n] # 0
        limb == IF j >= 1 /\ j <= Len(a) THEN a[j] ELSE 0
    IN  IF k = 0 THEN [q |-> a, last |-> 0, sticky |-> FALSE]
        ELSE IF i = 0
        THEN [q |-> x.q, last |-> limb \div 1000,
              sticky |-> limb % 1000 # 0
                           \/ \E n \in 1..(j - 1) : n <= Len(a) /\ a[n] # 0]
        ELSE [q |-> x.q, last |-> x.r \div Pow10(i - 1),
              sticky |-> x.r % Pow10(i - 1) # 0 \/ low]

\* a / 10^k rounded half to even.
BigRoundPow10(a, k) ==
    LET c == BigChop(a, k)
        up == c.last > 5 \/ (c.last = 5 /\ (c.sticky \/ BigOdd(c.q)))
    IN  IF up THEN BigAdd(c.q, << 1 >>) ELSE c.q

\* The number m / 10^scale as a Decimal whose fraction has no trailing zero.
RECURSIVE DecCanon(_, _, _)
DecCanon(neg, m, scale) ==
    IF m = << >> THEN [neg |-> FALSE, m |-> << >>, scale |-> 0]
    ELSE IF scale >= 4 /\ m[1] = 0
    THEN DecCanon(neg, Tail(m), scale - 4)
    ELSE IF scale > 0 /\ m[1] % 10 = 0
    THEN DecCanon(neg, BigDivSmall(m, 10).q, scale - 1)
    ELSE [neg |-> neg, m |-> m, scale |-> scale]

\* The exact number m / 10^scale brought into a Decimal: the scale is
\* lowered, rounding half to even, until it is at most 28 and the mantissa
\* fits 96 bits; k digits are cut off so far.  Overflow when no scale fits.
RECURSIVE DecFit(_, _, _, _)
DecFit(neg, m, scale, k) ==
    IF scale - k < 0 THEN [t |-> "Overflow"]
    ELSE LET r == BigRoundPow10(m, k)
         IN  IF Computed(r) /\ scale - k <= MAX_SCALE /\ BigCmp(r, TwoPow96) < 0
             THEN DecCanon(neg, r, scale - k)
             ELSE DecFit(neg, m, scale, k + 1)

DecZero == [neg |-> FALSE, m |-> << >>, scale |-> 0]

\* Decimal::from(n) for a natural n.
DecFrom(n) == DecCanon(FALSE, BigFromNat(n), 0)

\* Decimal::new(num, scale) for num >= 0.
DecNew(num, scale) == DecCanon(FALSE, BigFromNat(num), scale)

\* The mantissa of x at scale s >= x.scale.
DecAt(x, s) == BigMulPow10(x.m, s - x.scale)

DecMaxScale(a, b) == IF a.scale > b.scale THEN a.scale ELSE b.scale

\* a + b for a, b >= 0.
DecAdd(a, b) ==
    LET s == DecMaxScale(a, b)
        x == DecAt(a, s)
        y == DecAt(b, s)
        m == BigAdd(x, y)
    IN  CASE Computed(x) /\ Computed(y) /\ Computed(m) -> DecFit(FALSE, m, s, 0)

\* a - b for a, b >= 0.
DecSub(a, b) ==
    LET s == DecMaxScale(a, b)
        x == DecAt(a, s)
        y == DecAt(b, s)
        m == IF BigCmp(x, y) >= 0 THEN BigSub(x, y) ELSE BigSub(y, x)
    IN  CASE Computed(x) /\ Computed(y) /\ Computed(m) ->
                DecFit(BigCmp(x, y) < 0, m, s, 0)

\* a * b
DecMul(a, b) ==
    LET scale == a.scale + b.scale
        m == BigMul(a.m, b.m)
    IN  CASE Computed(m) ->
                DecFit(a.neg # b.neg, m, scale,
                       IF scale > MAX_SCALE THEN scale - MAX_SCALE ELSE 0)

\* a / b for a >= 0 and b > 0 with a mantissa of at most 2 * 10^5: the
\* quotient at the largest scale s <= 28 whose mantissa fits 96 bits,
\* rounded half to even on the remainder.
RECURSIVE DecDivAt(_, _, _)
DecDivAt(a, b, s) ==
    LET e == s - a.scale + b.scale
        d == b.m[1] + (IF Len(b.m) > 1 THEN b.m[2] * LIMB ELSE 0)
        x == BigDivSmall(BigMulPow10(a.m, e), d)
        up == 2 * x.r > d \/ (2 * x.r = d /\ BigOdd(x.q))
        q == IF up THEN BigAdd(x.q, << 1 >>) ELSE x.q
    IN  IF Computed(x) /\ Computed(q) /\ BigCmp(q, TwoPow96) < 0
        THEN DecCanon(FALSE, q, s)
        ELSE DecDivAt(a, b, s - 1)

DecDiv(a, b) == DecDivAt(a, b, MAX_SCALE)

\* MathematicalOps::sqrt: None for a negative number, zero for zero; the
\* root of a positive number is kept as the root of that number.
DecSqrt(a) ==
    IF a.neg THEN [t |-> "None"]
    ELSE IF a.m = << >> THEN DecZero
    ELSE [t |-> "Sqrt", of |-> a]

(***************************************************************************)
(* Part 1c.  OraclePriceHistory::bollinger_band                            *)
(***************************************************************************)

\* Into<Decimal> for HistoricalDecimal: Decimal::new(num, scale).
PriceOf(e) == DecNew(e.num, e.scale)

Min2(a, b) == IF a < b THEN a ELSE b
Max2(a, b) == IF a > b THEN a ELSE b

\* acc + xs[lo] + ... + xs[hi], each term added to the running sum in order;
\* the running sum is a Decimal (of at most MAX_SCALE decimal places) before
\* the next term is added to it.
RECURSIVE DecSumRange(_, _, _, _)
DecSumRange(xs, acc, lo, hi) ==
    IF lo > hi THEN acc
    ELSE IF lo = hi THEN DecAdd(acc, xs[lo])
    ELSE LET mid == (lo + hi) \div 2
             upto == DecSumRange(xs, acc, lo, mid)
         IN  IF upto.scale > MAX_SCALE THEN upto
             ELSE DecSumRange(xs, upto, mid + 1, hi)

\* A sum that starts from the first Decimal and then adds every one of them.
DecSumSeeded(xs, n) ==
    DecSumRange(xs, IF Len(xs) > 0 THEN xs[1] ELSE DecZero, 1, n)

\* The sum of the first n Decimals of xs, added in order from Decimal::ZERO.
DecSum(xs, n) == DecSumRange(xs, DecZero, 1, n)

\* A failed call.
BandErr(e) == [err |-> e]

\* Window guards that test the output history only.
bollinger_guards_self_only(self, mean_window, std_window, input) ==
    IF mean_window = 0 \/ std_window = 0 THEN "MathError"
    ELSE IF self.num_updates < Max2(mean_window, std_window)
    THEN "EmaOrStdWindowTooLarge"
    ELSE "Ok"

\* The guards at the head of bollinger_band: "Ok" when they pass.
bollinger_guards(self, mean_window, std_window, input) ==
    IF mean_window = 0 \/ std_window = 0 THEN "MathError"
    ELSE IF self.num_updates < Max2(mean_window, std_window)
    THEN "EmaOrStdWindowTooLarge"
    ELSE IF input.num_updates < Max2(mean_window, std_window)
    THEN "EmaOrStdWindowTooLarge"
    ELSE "Ok"

\* The price ratios of the loop: the two newest-first iterators zipped, the
\* first max(mean_window, std_window) pairs taken.
bollinger_pairs(self, mean_window, std_window, input) ==
    LET out == IterItems(self)
        inp == IterItems(input)
        n == Min2(Max2(mean_window, std_window), Min2(Len(out), Len(inp)))
    IN  [i \in 1..n |-> << out[i], inp[i] >>]

\* bollinger_band once the guards have passed.  Dividing by a zero price
\* panics in Decimal's Div.
\* The ratio of each pair's prices, in the order of the loop.
RECURSIVE BandRatios(_, _, _)
BandRatios(pairs, lo, hi) ==
    IF lo > hi THEN << >>
    ELSE IF lo = hi THEN << DecDiv(PriceOf(pairs[lo][1]), PriceOf(pairs[lo][2])) >>
    ELSE LET mid == (lo + hi) \div 2
         IN  BandRatios(pairs, lo, mid) \o BandRatios(pairs, mid + 1, hi)

\* (std_mean - elem)^2 of each of std_items, in order.
RECURSIVE BandSquares(_, _, _, _)
BandSquares(std_items, std_mean, lo, hi) ==
    IF lo > hi THEN << >>
    ELSE IF lo = hi
    THEN LET diff == DecSub(std_mean, std_items[lo])
         IN  << DecMul(diff, diff) >>
    ELSE LET mid == (lo + hi) \div 2
         IN  BandSquares(std_items, std_mean, lo, mid)
                \o BandSquares(std_items, std_mean, mid + 1, hi)

bollinger_compute(self, mean_window, std_window, input) ==
    LET pairs == bollinger_pairs(self, mean_window, std_window, input)
        n == Len(pairs)
    IN  IF n = 0 THEN BandErr("PriceHistoryEmpty")
        ELSE IF \E i \in 1..n : PriceOf(pairs[i][2]) = DecZero
        THEN BandErr("Panic")
        ELSE
          LET price == BandRatios(pairs, 1, n)
              mean_sum == DecSum(price, Min2(n, mean_window))
              std_n == Min2(n, std_window)
              std_sum == DecSum(price, std_n)
              std_mean == DecDiv(std_sum, DecFrom(std_window))
              squares == BandSquares(price, std_mean, 1, std_n)
              variance == DecDiv(DecSum(squares, std_n), DecFrom(std_window))
              std == DecSqrt(variance)
              mean == DecDiv(mean_sum, DecFrom(mean_window))
          IN  IF /\ Computed(price) /\ Computed(mean_sum) /\ Computed(std_sum)
                 /\ Computed(std_mean) /\ Computed(squares) /\ Computed(variance)
                 /\ std = [t |-> "None"]
              THEN BandErr("MathError")
              ELSE [err |-> "Ok", mean |-> mean, std |-> std]

\* OraclePriceHistory::bollinger_band
bollinger_band(self, mean_window, std_window, input) ==
    LET g == bollinger_guards(self, mean_window, std_window, input)
    IN  IF g # "Ok" THEN BandErr(g)
        ELSE bollinger_compute(self, mean_window, std_window, input)

\* Pushes explored on each of the two histories, and the largest window.
MaxBandPushes == 5
MaxWindow == 6

\* Prices pushed to the output history and to the input history.
OutputPrices == { [num |-> 71, scale |-> 0], [num |-> 18, scale |-> 0] }
InputPrices ==
    { [num |-> 9, scale |-> 0], [num |-> 1800, scale |-> 2],
      [num |-> 0, scale |-> 0] }

\* The entry recording price p at slot n.
PriceEntry(p, n) == [num |-> p.num, scale |-> p.scale, slot |-> n]

\* The prices push number k on a history can record: any of `choices` for
\* the first FreePushes pushes, the price of the previous push after them.
BandPrices(h, choices) ==
    IF h.num_updates < FreePushes THEN choices
    ELSE LET e == most_recent_entry(h)
         IN  { [num |-> e.num, scale |-> e.scale] }

\* No bollinger_band result at hand.
NoCall == [op |-> "none"]

BandInit ==
    /\ RingInit
    /\ input_token_history = ZeroedHistory
    /\ band_ret = NoCall

\* A price is pushed to the output token's history (self).
BandPushOutput ==
    /\ num_updates < MaxBandPushes
    /\ \E p \in BandPrices(History, OutputPrices) :
          LET e == PriceEntry(p, num_updates + 1)
              h == push(History, e)
          IN  /\ num_updates' = h.num_updates
              /\ price_history' = h.price_history
              /\ pushed' = Append(pushed, e)
    /\ band_ret' = NoCall
    /\ UNCHANGED input_token_history

\* A price is pushed to the input token's history.
BandPushInput ==
    /\ input_token_history.num_updates < MaxBandPushes
    /\ \E p \in BandPrices(input_token_history, InputPrices) :
          input_token_history' =
              push(input_token_history,
                   PriceEntry(p, input_token_history.num_updates + 1))
    /\ band_ret' = NoCall
    /\ UNCHANGED ringVars

\* A call of bollinger_band on the two histories as they are.
BollingerBand ==
    /\ band_ret = NoCall
    /\ \E mean_window \in 0..MaxWindow, std_window \in 0..MaxWindow :
          band_ret' =
              [op |-> "bollinger_band",
               mean_window |-> mean_window, std_window |-> std_window,
               res |-> bollinger_band(History, mean_window, std_window,
                                      input_token_history)]
    /\ UNCHANGED <<ringVars, input_token_history>>

(***************************************************************************)
(* Part 2.  Addresses, the Pair account and the ledger                     *)
(***************************************************************************)

\* Pubkey::default()
DEFAULT_PUBKEY == "default"

CLOCK == "sysvar_clock"             \* clock::ID
PROGRAM_ID == "gfx_ssl_v2_program"  \* gfx_ssl_v2_sdk::ID
TOKEN_PROGRAM == "spl_token"        \* spl_token::ID
EVENT_EMITTER == "event_emitter"    \* EventEmitter::address()
PAIR == "pair"                      \* the pair account's key
REGISTRY == "pool_registry"         \* pair.pool_registry
USER_WALLET == "GFXFAKEWA11ET"      \* the fake user wallet
MINT_A == "mint_a"                  \* pair.mints.0
MINT_B == "mint_b"                  \* pair.mints.1

\* Price-history accounts, the oracle each one records, program-data accounts.
Histories == {"oph_1", "oph_2", "oph_3"}
Oracles == {"oracle_1", "oracle_2", "oracle_3"}
ProgramDatas == {"programdata_1", "programdata_2"}

\* A history account is the PDA of (pool registry, oracle): one oracle each.
OracleOf(h) ==
    CASE h = "oph_1" -> "oracle_1"
      [] h = "oph_2" -> "oracle_2"
      [] h = "oph_3" -> "oracle_3"

\* SSLPool::signer_address(pool_registry, mint)
signer_address(pool_registry, mint) ==
    IF mint = MINT_A THEN "ssl_signer_a" ELSE "ssl_signer_b"

\* get_associated_token_address(owner, mint): one address per (owner, mint).
get_associated_token_address(owner, mint) ==
    CASE owner = "ssl_signer_a" /\ mint = MINT_A -> "ata_signer_a_mint_a"
      [] owner = "ssl_signer_a" /\ mint = MINT_B -> "ata_signer_a_mint_b"
      [] owner = "ssl_signer_b" /\ mint = MINT_A -> "ata_signer_b_mint_a"
      [] owner = "ssl_signer_b" /\ mint = MINT_B -> "ata_signer_b_mint_b"
      [] owner = REGISTRY /\ mint = MINT_A -> "ata_registry_mint_a"
      [] owner = REGISTRY /\ mint = MINT_B -> "ata_registry_mint_b"
      [] owner = USER_WALLET /\ mint = MINT_A -> "ata_user_mint_a"
      [] owner = USER_WALLET /\ mint = MINT_B -> "ata_user_mint_b"

\* Pair accounts the mirrors are constructed from: a fee collector per mint
\* and fee rates in basis points, equal or different for the two mints.
PairChoices ==
    { [pool_registry |-> REGISTRY, mints |-> <<MINT_A, MINT_B>>,
       fee_collector |-> <<"collector_1", "collector_2">>, fee_rates |-> r] :
         r \in { <<5, 30>>, <<30, 30>> } }

\* Decimal::new(num, scale)
Decimal(num, scale) == [num |-> num, scale |-> scale]

\* Pair::find_fee_attrs: tuple slot .0 is index 1 here, .1 is index 2.
find_fee_attrs(p, mint_in, mint_out) ==
    IF <<mint_in, mint_out>> = p.mints
    THEN [ok |-> TRUE, rate |-> Decimal(p.fee_rates[2], 4),
          collector |-> p.fee_collector[2], ordering |-> "InOut"]
    ELSE IF <<mint_out, mint_in>> = p.mints
    THEN [ok |-> TRUE, rate |-> Decimal(p.fee_rates[1], 4),
          collector |-> p.fee_collector[1], ordering |-> "InOut"]
    ELSE [ok |-> FALSE, err |-> "MintNotFound"]

\* Option::None in the mirror's account map.
NoAccount == [t |-> "None"]

\* A PoolRegistry account listing the first price history of each mint's pool.
RegistryAccount(ha, hb) ==
    [t |-> "PoolRegistry", entries |-> (MINT_A :> ha) @@ (MINT_B :> hb)]

\* Bytes that deserialize as none of the account types.
Garbage == [t |-> "Garbage"]

\* The program account of an upgradeable program.
ProgramAccount(d) == [t |-> "Program", programdata_address |-> d]

\* Registries with a pool per mint, each with its own price history: the
\* first one, one where mint_a's pool has moved to a fresh history, and one
\* where both pools have moved.
WellFormedRegistries ==
    { RegistryAccount("oph_1", "oph_2"),
      RegistryAccount("oph_3", "oph_2"),
      RegistryAccount("oph_2", "oph_3") }

\* PoolRegistry::find_pool
find_pool(registry, mint) ==
    IF mint \in DOMAIN registry.entries
    THEN [ok |-> TRUE, oracle_price_histories_0 |-> registry.entries[mint]]
    ELSE [ok |-> FALSE]

\* The Pair account as account bytes.
PairAccount(p) == [t |-> "Pair", data |-> p]

\* The account the fetch collaborator returns for an address.
Fetch(c, key) ==
    CASE key = REGISTRY -> c.reg
      [] key = PROGRAM_ID -> c.prog
      [] key = PAIR -> PairAccount(c.pair)
      [] key \in Histories ->
            [t |-> "OraclePriceHistory", oracle_address |-> OracleOf(key)]
      [] OTHER -> [t |-> "Data", of |-> key]

ChainInit ==
    /\ pair \in PairChoices
    /\ chain \in [reg : WellFormedRegistries,
                  prog : { ProgramAccount(d) : d \in ProgramDatas },
                  pair : {pair}]

\* An administrator re-points the pools' price histories.
ChainSetHistories ==
    /\ \E r \in WellFormedRegistries \ {chain.reg} :
          chain' = [chain EXCEPT !.reg = r]
    /\ UNCHANGED pair

\* The program is upgraded: its program-data address changes.
ChainUpgradeProgram ==
    /\ \E d \in ProgramDatas \ {chain.prog.programdata_address} :
          chain' = [chain EXCEPT !.prog = ProgramAccount(d)]
    /\ UNCHANGED pair

\* Pair accounts an administrator can configure the pair into: the fee rates
\* and the fee collectors change, the registry and the mints stay.
LedgerPairs ==
    { [pool_registry |-> REGISTRY, mints |-> <<MINT_A, MINT_B>>,
       fee_collector |-> c, fee_rates |-> r] :
         c \in { <<"collector_1", "collector_2">>, <<"collector_2", "collector_1">> },
         r \in { <<5, 30>>, <<30, 30>> } }

\* An administrator reconfigures the pair's fee rates or fee collectors.
ChainConfigPair ==
    /\ \E p \in LedgerPairs \ {chain.pair} :
          chain' = [chain EXCEPT !.pair = p]
    /\ UNCHANGED pair

\* Addresses put into the account maps of single update() calls: the ones
\* update() branches on.
InputKeys ==
    {PROGRAM_ID, REGISTRY} \cup Histories \cup ProgramDatas

\* Entries per update batch.
MaxBatch == 2

Range(s) == { s[i] : i \in DOMAIN s }

\* Sequences of at most n distinct keys of K: the iteration orders of the
\* account maps with at most n entries.
RECURSIVE KeySeqs(_, _)
KeySeqs(K, n) ==
    IF n = 0 THEN { <<>> }
    ELSE LET shorter == KeySeqs(K, n - 1)
         IN  shorter \cup
             { Append(s, k) : s \in { x \in shorter : Len(x) = n - 1 },
                              k \in K } 

Batches == { s \in KeySeqs(InputKeys, MaxBatch) : Cardinality(Range(s)) = Len(s) }

(***************************************************************************)
(* Part 3.  The quote_check GfxAmm (src/quote_check/src/lib.rs)            *)
(***************************************************************************)

\* HashMap::insert(key, value)
MapInsert(m, k, v) == [x \in (DOMAIN m) \cup {k} |-> IF x = k THEN v ELSE m[x]]

\* HashMap::remove(key)
MapRemove(m, k) == [x \in (DOMAIN m) \ {k} |-> m[x]]

\* The account map a sequence of inserts of (key, None) builds.
RECURSIVE InsertAllNone(_, _)
InsertAllNone(m, ks) ==
    IF ks = <<>> THEN m
    ELSE InsertAllNone(MapInsert(m, Head(ks), NoAccount), Tail(ks))

\* The fields both mirrors derive from the Pair account in from_keyed_account.
PairDerived(p) ==
    LET mints == p.mints
        ssl_signers == << signer_address(p.pool_registry, mints[1]),
                          signer_address(p.pool_registry, mints[2]) >>
        fa == find_fee_attrs(p, mints[1], mints[2])
        fb == find_fee_attrs(p, mints[2], mints[1])
    IN  [pair |-> PAIR,
         pool_registry |-> p.pool_registry,
         mints |-> mints,
         fee_rates |-> p.fee_rates,
         fee_destination |-> << fa.collector, fb.collector >>,
         ssl_signers |-> ssl_signers,
         main_vaults |->
            << get_associated_token_address(ssl_signers[1], mints[1]),
               get_associated_token_address(ssl_signers[2], mints[2]) >>,
         secondary_vaults |->
            << get_associated_token_address(ssl_signers[1], mints[2]),
               get_associated_token_address(ssl_signers[2], mints[1]) >>,
         fee_vaults |->
            << get_associated_token_address(p.pool_registry, mints[1]),
               get_associated_token_address(p.pool_registry, mints[2]) >>,
         event_emitter |-> EVENT_EMITTER,
         user_wallet |-> USER_WALLET,
         user_atas |->
            << get_associated_token_address(USER_WALLET, mints[1]),
               get_associated_token_address(USER_WALLET, mints[2]) >>]

\* The keys from_keyed_account inserts with None, in the order of the code.
StaticKeys(d) ==
    << CLOCK, PROGRAM_ID, TOKEN_PROGRAM, EVENT_EMITTER, d.pair, d.pool_registry,
       d.main_vaults[1], d.main_vaults[2],
       d.secondary_vaults[1], d.secondary_vaults[2],
       d.fee_vaults[1], d.fee_vaults[2],
       d.fee_destination[1], d.fee_destination[2] >>

\* quote_check GfxAmm::from_keyed_account: the pair account is stored at once,
\* price_histories and oracles are Tuple::default(), program_data_address is
\* Pubkey::default().
qc_from_keyed_account(p) ==
    LET d == PairDerived(p)
        keys == InsertAllNone(<< >>, StaticKeys(d))
    IN  [d |-> d,
         price_histories |-> << DEFAULT_PUBKEY, DEFAULT_PUBKEY >>,
         oracles |-> << DEFAULT_PUBKEY, DEFAULT_PUBKEY >>,
         program_data_address |-> DEFAULT_PUBKEY,
         accounts |-> MapInsert(keys, d.pair, PairAccount(p))]

\* get_accounts_to_update: self.accounts.keys()
get_accounts_to_update(s) == DOMAIN s.accounts

\* A call's outcome: the mirror as the call left it, and Ok or the error.
Outcome(s, err) == [s |-> s, err |-> err]

\* One pass of the body of `for i in [0, 1]` in the pool-registry branch.
qc_registry_mint(s, pubkey, account, i) ==
    LET mint == s.d.mints[i]
        ssl == find_pool(account, mint)
        stored == s.accounts[pubkey]
        existing == find_pool(stored, mint)
    IN  IF ~ssl.ok THEN Outcome(s, "PoolNotFound")
        ELSE IF stored # NoAccount /\ stored.t # "PoolRegistry"
        THEN Outcome(s, "DeserializeFailure")
        ELSE IF stored # NoAccount /\ ~existing.ok
        THEN Outcome(s, "PoolNotFound")
        ELSE
          LET new == ssl.oracle_price_histories_0
              same == stored # NoAccount /\ existing.oracle_price_histories_0 = new
              evict == stored # NoAccount /\ ~same
              a1 == IF evict
                    THEN MapRemove(s.accounts, existing.oracle_price_histories_0)
                    ELSE s.accounts
              a2 == IF ~same THEN MapInsert(a1, new, NoAccount) ELSE a1
          IN  Outcome([s EXCEPT !.accounts = a2,
                                !.price_histories[i] = new], "Ok")

\* The pool-registry branch of update: deserialize, then both mints in turn;
\* an error leaves the changes made so far.
qc_registry_branch(s, pubkey, account) ==
    IF account.t # "PoolRegistry" THEN Outcome(s, "DeserializeFailure")
    ELSE LET r1 == qc_registry_mint(s, pubkey, account, 1)
         IN  IF r1.err # "Ok" THEN r1
             ELSE qc_registry_mint(r1.s, pubkey, account, 2)

\* position(|k| k == pubkey) in price_histories: 0 when there is none.
qc_history_position(s, pubkey) ==
    IF s.price_histories[1] = pubkey THEN 1
    ELSE IF s.price_histories[2] = pubkey THEN 2
    ELSE 0

\* A price-history branch that reads the oracle from the copy the mirror
\* already holds, and does nothing while it holds none.
qc_history_branch_stored(s, pubkey, account, i) ==
    IF s.accounts[pubkey] = NoAccount THEN Outcome(s, "Ok")
    ELSE LET o == s.accounts[pubkey].oracle_address
         IN  Outcome([s EXCEPT !.accounts = MapInsert(s.accounts, o, NoAccount),
                               !.oracles[i] = o], "Ok")

\* The price-history branch of update.
qc_history_branch(s, pubkey, account, i) ==
    IF account.t # "OraclePriceHistory" THEN Outcome(s, "DeserializeFailure")
    ELSE LET o == account.oracle_address
             a1 == IF o \in DOMAIN s.accounts THEN s.accounts
                   ELSE MapInsert(s.accounts, o, NoAccount)
         IN  Outcome([s EXCEPT !.accounts = a1, !.oracles[i] = o], "Ok")

\* A program branch that inserts the program-data key on every update.
qc_program_branch_reinsert(s, pubkey, account) ==
    IF account.t = "Garbage" THEN Outcome(s, "Panic")
    ELSE IF account.t # "Program" THEN Outcome(s, "NotUpgradable")
    ELSE LET d == account.programdata_address
         IN  Outcome([s EXCEPT
                 !.accounts = MapInsert(MapRemove(s.accounts, s.program_data_address),
                                        d, NoAccount),
                 !.program_data_address = d], "Ok")

\* The program-id branch of update.
qc_program_branch(s, pubkey, account) ==
    IF account.t = "Garbage" THEN Outcome(s, "Panic")
    ELSE IF account.t # "Program" THEN Outcome(s, "NotUpgradable")
    ELSE LET d == account.programdata_address
             a1 == IF d # s.program_data_address
                   THEN MapInsert(MapRemove(s.accounts, s.program_data_address),
                                  d, NoAccount)
                   ELSE s.accounts
         IN  Outcome([s EXCEPT !.accounts = a1, !.program_data_address = d], "Ok")

\* The body of update's loop for one (pubkey, account) of the account map.
qc_update_entry(s, pubkey, account) ==
    IF pubkey \notin DOMAIN s.accounts THEN Outcome(s, "Ok")
    ELSE
      LET r == IF pubkey = s.d.pool_registry
               THEN qc_registry_branch(s, pubkey, account)
               ELSE IF qc_history_position(s, pubkey) # 0
               THEN qc_history_branch(s, pubkey, account,
                                      qc_history_position(s, pubkey))
               ELSE IF pubkey = PROGRAM_ID
               THEN qc_program_branch(s, pubkey, account)
               ELSE Outcome(s, "Ok")
      IN  IF r.err # "Ok" THEN r
          ELSE IF pubkey \notin DOMAIN r.s.accounts THEN r
          ELSE Outcome([r.s EXCEPT !.accounts[pubkey] = account], "Ok")

\* update: the loop over the account map in iteration order `order`, the
\* accounts read from ledger c; the first error ends the call.
RECURSIVE qc_update(_, _, _)
qc_update(s, c, order) ==
    IF order = <<>> THEN Outcome(s, "Ok")
    ELSE LET r == qc_update_entry(s, Head(order), Fetch(c, Head(order)))
         IN  IF r.err # "Ok" THEN r ELSE qc_update(r.s, c, Tail(order))

\* A readiness check that forgets the oracles.
qc_ready_no_oracles(s) ==
    ~ \/ s.program_data_address = DEFAULT_PUBKEY
      \/ \E i \in 1..2 : s.price_histories[i] = DEFAULT_PUBKEY

\* GfxAmm::ready: TRUE when it does not throw RequiredAccountUpdate.
qc_ready(s) ==
    ~ \/ s.program_data_address = DEFAULT_PUBKEY
      \/ \E i \in 1..2 : s.price_histories[i] = DEFAULT_PUBKEY
      \/ \E i \in 1..2 : s.oracles[i] = DEFAULT_PUBKEY

\* Tuple::reverse
Reverse2(t) == << t[2], t[1] >>

\* The swap directions quoted: (input_mint, output_mint).
Directions == { << MINT_A, MINT_B >>, << MINT_B, MINT_A >> }

\* What the program executor can answer for a built message.
ExecutorOutcomes == { "Ok", "ExecutionError" }

\* The result of a quote() call that stopped at the readiness check.
NotReadyResult(input_mint, output_mint) ==
    [op |-> "quote", err |-> "RequiredAccountUpdate", built |-> FALSE,
     input_mint |-> input_mint, output_mint |-> output_mint]

\* The accounts of the Swap instruction quote() builds for a direction.
qc_swap_metas(s, a_to_b) ==
    LET price_histories == IF a_to_b THEN s.price_histories
                           ELSE Reverse2(s.price_histories)
        signers == IF a_to_b THEN s.d.ssl_signers ELSE Reverse2(s.d.ssl_signers)
        atas == IF a_to_b THEN s.d.user_atas ELSE Reverse2(s.d.user_atas)
        main_vaults == IF a_to_b THEN s.d.main_vaults ELSE Reverse2(s.d.main_vaults)
        secondary_vaults == IF a_to_b THEN s.d.secondary_vaults
                            ELSE Reverse2(s.d.secondary_vaults)
        oracles == IF a_to_b THEN s.oracles ELSE Reverse2(s.oracles)
    IN  [pair |-> s.d.pair,
         pool_registry |-> s.d.pool_registry,
         user_wallet |-> s.d.user_wallet,
         ssl_pool_in_signer |-> signers[1],
         ssl_pool_out_signer |-> signers[2],
         user_ata_in |-> atas[1],
         user_ata_out |-> atas[2],
         ssl_out_main_vault |-> main_vaults[2],
         ssl_out_secondary_vault |-> secondary_vaults[2],
         ssl_in_main_vault |-> main_vaults[1],
         ssl_in_secondary_vault |-> secondary_vaults[1],
         ssl_out_fee_vault |-> IF a_to_b THEN s.d.fee_vaults[2] ELSE s.d.fee_vaults[1],
         fee_destination |-> IF a_to_b THEN s.d.fee_destination[1]
                             ELSE s.d.fee_destination[2],
         output_token_price_history |-> price_histories[2],
         output_token_oracle |-> oracles[2],
         input_token_price_history |-> price_histories[1],
         input_token_oracle |-> oracles[1],
         event_emitter |-> s.d.event_emitter,
         token_program |-> TOKEN_PROGRAM]

\* Whether the mirror holds bytes for a key.
Stored(accounts, k) == k \in DOMAIN accounts /\ accounts[k] # NoAccount

\* What quote() does once the instruction is built: the clock is read from
\* the mirror, the executor runs, the fee account is read from the mirror and
\* the Quote is assembled.
quote_after_build(accounts, fee_rates, a_to_b, metas, input_mint, output_mint, exec) ==
    LET base == [op |-> "quote", built |-> TRUE, metas |-> metas,
                 input_mint |-> input_mint, output_mint |-> output_mint]
    IN  IF ~Stored(accounts, CLOCK)
        THEN base @@ [err |-> "RequiredAccountUpdate"]
        ELSE IF exec # "Ok"
        THEN base @@ [err |-> "ExecutionError"]
        ELSE IF ~Stored(accounts, metas.fee_destination)
        THEN base @@ [err |-> "Panic"]
        ELSE base @@
             [err |-> "Ok",
              quote |-> [fee_pct |-> Decimal(IF a_to_b THEN fee_rates[1]
                                             ELSE fee_rates[2], 4),
                         fee_mint |-> output_mint,
                         not_enough_liquidity |-> FALSE]]

\* quote_check GfxAmm::quote
qc_quote(s, input_mint, output_mint, exec) ==
    IF ~qc_ready(s) THEN NotReadyResult(input_mint, output_mint)
    ELSE LET a_to_b == input_mint = s.d.mints[1]
         IN  quote_after_build(s.accounts, s.d.fee_rates, a_to_b,
                               qc_swap_metas(s, a_to_b),
                               input_mint, output_mint, exec)

QcInit ==
    /\ qc = qc_from_keyed_account(pair)
    /\ qc_ret = [op |-> "from_keyed_account", err |-> "Ok"]

\* A call of update() with an account map read from the ledger.
QcUpdate ==
    /\ \E order \in Batches :
          LET r == qc_update(qc, chain, order)
          IN  /\ qc' = r.s
              /\ qc_ret' = [op |-> "update", err |-> r.err]
    /\ UNCHANGED <<ringVars, bandVars, callVars, checkVars, sdkVars, pair, chain, jupVars>>

\* A call of quote() for one direction.
QcQuote ==
    /\ \E dir \in Directions, exec \in ExecutorOutcomes :
          qc_ret' = qc_quote(qc, dir[1], dir[2], exec)
    /\ UNCHANGED <<ringVars, bandVars, callVars, checkVars, sdkVars, pair, chain, qc, jupVars>>

\* The iteration orders of a set of keys.
RECURSIVE Perms(_)
Perms(S) ==
    IF S = {} THEN { <<>> }
    ELSE UNION { { <<x>> \o q : q \in Perms(S \ {x}) } : x \in S }

\* The keys update() branches on, and the ones it only stores, the latter in
\* one fixed order.
BranchKeys == {REGISTRY, PROGRAM_ID} \cup Histories
StoreOnlyOrder ==
    << CLOCK, TOKEN_PROGRAM, EVENT_EMITTER, PAIR,
       "ata_signer_a_mint_a", "ata_signer_b_mint_b",
       "ata_signer_a_mint_b", "ata_signer_b_mint_a",
       "ata_registry_mint_a", "ata_registry_mint_b",
       "collector_1", "collector_2",
       "oracle_1", "oracle_2", "oracle_3",
       "programdata_1", "programdata_2" >>

\* The iteration orders explored for the account map holding every key of
\* `keys`: every order of the keys update() branches on, with the keys it
\* only stores (their place among the others changes nothing they do, as
\* they are tracked when the call starts) before or after them.
FetchAllOrders(keys) ==
    LET plain == SelectSeq(StoreOnlyOrder, LAMBDA k : k \in keys)
    IN  UNION { { plain \o q, q \o plain } : q \in Perms(keys \cap BranchKeys) }

\* check_quote: fetch every address of get_accounts_to_update(), pass the
\* accounts to update().
QcFetchAll ==
    /\ \E order \in FetchAllOrders(get_accounts_to_update(qc)) :
          LET r == qc_update(qc, chain, order)
          IN  /\ qc' = r.s
              /\ qc_ret' = [op |-> "update", err |-> r.err]
    /\ UNCHANGED <<ringVars, bandVars, callVars, checkVars, sdkVars, pair, chain, jupVars>>

\* Placeholders for the parts a specification does not move.
RingIdle == num_updates = 0 /\ price_history = << >> /\ pushed = << >>
ChainIdle == pair = [t |-> "None"] /\ chain = [t |-> "None"]
QcIdle == qc = [t |-> "None"] /\ qc_ret = [t |-> "None"]
JupIdle == jup = [t |-> "None"] /\ jup_ret = [t |-> "None"]
              /\ rounds = 0 /\ keys_before = {}
BandIdle == input_token_history = [t |-> "None"] /\ band_ret = [t |-> "None"]
CallIdle == call_args = [op |-> "none"] /\ call_ret = [t |-> "None"]
CheckIdle == checker = [status |-> "none"]
SdkIdle == sdk = [t |-> "None"] /\ sdk_ret = [op |-> "none"]

\* The price history alone.
RingSpecInit == RingInit /\ ChainIdle /\ QcIdle /\ JupIdle /\ BandIdle /\ CallIdle /\ CheckIdle /\ SdkIdle

RingNext == Push /\ UNCHANGED <<bandVars, callVars, checkVars, sdkVars, pair, chain, qcVars, jupVars>>

SpecRing == RingSpecInit /\ [][RingNext]_vars

\* A pair, a ledger and the quote_check mirror constructed from the pair.
QcSpecInit ==
    RingIdle /\ ChainInit /\ QcInit /\ JupIdle /\ BandIdle /\ CallIdle /\ CheckIdle /\ SdkIdle

QcNext ==
    \/ QcUpdate
    \/ ChainSetHistories /\ UNCHANGED <<ringVars, bandVars, callVars, checkVars, sdkVars, qcVars, jupVars>>
    \/ ChainUpgradeProgram /\ UNCHANGED <<ringVars, bandVars, callVars, checkVars, sdkVars, qcVars, jupVars>>

\* The quote_check mirror under update() calls with arbitrary small account
\* maps, against a ledger whose registry and program change.
SpecQC == QcSpecInit /\ [][QcNext]_vars

QuoteNext ==
    \/ QcFetchAll
    \/ QcQuote

\* The quote_check mirror as check_quote drives it: fetch-everything updates
\* and quotes, against a ledger that stays as it is.
SpecQuote == QcSpecInit /\ [][QuoteNext]_vars

\* Two price histories from the zeroed default.
BandSpecInit == BandInit /\ ChainIdle /\ QcIdle /\ JupIdle /\ CallIdle /\ CheckIdle /\ SdkIdle

BandNext ==
    \/ BandPushOutput /\ UNCHANGED <<callVars, checkVars, sdkVars, pair, chain, qcVars, jupVars>>
    \/ BandPushInput /\ UNCHANGED <<callVars, checkVars, sdkVars, pair, chain, qcVars, jupVars>>
    \/ BollingerBand /\ UNCHANGED <<callVars, checkVars, sdkVars, pair, chain, qcVars, jupVars>>

\* bollinger_band on two price histories that are pushed to independently.
SpecBand == BandSpecInit /\ [][BandNext]_vars

(***************************************************************************)
(* Properties of the price history (SpecRing)                              *)
(***************************************************************************)

\* C1: from the zeroed default, after n >= 1 pushes num_updates is n,
\* most_recent_index() is n mod 256 and most_recent_entry() is the entry
\* given to the last push.
C1_PushCounts ==
    Len(pushed) >= 1 =>
        /\ num_updates = Len(pushed)
        /\ most_recent_index(History) = Len(pushed) % 256
        /\ most_recent_entry(History) = pushed[Len(pushed)]

\* The array has wrapped: push number 257 went to index 1.
C1_Wrapped ==
    /\ Len(pushed) = 257
    /\ most_recent_index(History) = 1
    /\ most_recent_entry(History) = LaterEntry(257)

\* C2: after n pushes the newest-first iterator yields min(256, n) entries,
\* reads no array index twice, starts at index n mod 256, and its i-th item
\* (from 0) is the entry of push number n - i.
C2_NewestFirst ==
    LET n == Len(pushed)
        idx == IterIndices(History, IterFrom(History))
        items == IterItems(History)
    IN  /\ Len(items) = IF n < 256 THEN n ELSE 256
        /\ Cardinality(Range(idx)) = Len(idx)
        /\ n >= 1 => idx[1] = n % 256
        /\ \A i \in 0..(Len(items) - 1) : items[i + 1] = pushed[n - i]

\* The history the iterator walks after 256 + 3 pushes: it starts at index 3,
\* the newest entry, and the oldest entry still held is the one of push 4.
C2_AfterWrap ==
    /\ Len(pushed) = 259
    /\ IterFrom(History) = [counter |-> 0, index |-> 3]
    /\ price_history[3] = pushed[259]
    /\ price_history[4] = pushed[4]

(***************************************************************************)
(* Properties of the quote_check mirror's update (SpecQC)                  *)
(***************************************************************************)

\* The mirror after update() with the account map iterated in `order`.
QcAfter(order) == qc_update(qc, chain, order)

\* The price history the ledger's registry lists for pair mint i.
ListedHistory(i) == find_pool(chain.reg, qc.d.mints[i]).oracle_price_histories_0

\* C3: when update() applies a pool-registry account listing for a pair mint
\* a price history P2 other than the recorded P1, then after the update P1 is
\* not in get_accounts_to_update() and P2 is.
C3_StaleHistoryEvicted ==
    \A order \in Batches :
        (REGISTRY \in Range(order) /\ QcAfter(order).err = "Ok") =>
            \A i \in 1..2 :
                LET P1 == qc.price_histories[i]
                    P2 == ListedHistory(i)
                IN  (P1 # DEFAULT_PUBKEY /\ P2 # P1) =>
                        /\ P1 \notin get_accounts_to_update(QcAfter(order).s)
                        /\ P2 \in get_accounts_to_update(QcAfter(order).s)

\* C10: whenever ready() holds, the program-data address, both price-history
\* addresses and both oracle addresses are keys of the tracked account map.
C10_ReadyKeysTracked ==
    qc_ready(qc) =>
        ({qc.program_data_address} \cup Range(qc.price_histories)
            \cup Range(qc.oracles)) \subseteq get_accounts_to_update(qc)

\* C7: applying the program-id account records its program-data address and
\* tracks it; with the address unchanged the key keeps its stored bytes; with
\* a changed address the old key is removed; at most one program-data
\* address is tracked at any time.
C7_ProgramData ==
    /\ Cardinality(get_accounts_to_update(qc) \cap ProgramDatas) <= 1
    /\ \A order \in Batches :
          PROGRAM_ID \in Range(order) =>
              LET r == QcAfter(order)
                  after == r.s
                  old == qc.program_data_address
                  d == chain.prog.programdata_address
              IN  r.err = "Ok" =>
                    /\ after.program_data_address = d
                    /\ d \in get_accounts_to_update(after)
                    /\ (old = d /\ Stored(qc.accounts, d)) => Stored(after.accounts, d)
                    /\ (old = d /\ order = <<PROGRAM_ID>>) =>
                           after.accounts[d] = qc.accounts[d]
                    /\ old # d => old \notin get_accounts_to_update(after)
                    /\ get_accounts_to_update(after) \cap ProgramDatas = {d}

\* The program was upgraded after its program-data account had been fetched:
\* applying the program-id account evicts the old address and tracks the new.
C7_Upgrade ==
    /\ qc_ret.op = "update"
    /\ qc.program_data_address = "programdata_1"
    /\ Stored(qc.accounts, "programdata_1")
    /\ chain.prog = ProgramAccount("programdata_2")
    /\ get_accounts_to_update(QcAfter(<<PROGRAM_ID>>).s) \cap ProgramDatas
          = {"programdata_2"}

\* The mirror after update() is applied a second time with the same map.
QcAfterTwice(order) == qc_update(QcAfter(order).s, chain, order)

C4_NotReadyFails ==
    (/\ qc_ret.op = "quote"
     /\ \/ qc.program_data_address = DEFAULT_PUBKEY
        \/ \E i \in 1..2 : qc.price_histories[i] = DEFAULT_PUBKEY
        \/ \E i \in 1..2 : qc.oracles[i] = DEFAULT_PUBKEY) =>
        /\ qc_ret.err = "RequiredAccountUpdate"
        /\ ~qc_ret.built

\* A quote refused while only the oracles are unresolved.
C4_OraclesUnresolved ==
    /\ qc_ret.op = "quote"
    /\ qc_ret.err = "RequiredAccountUpdate"
    /\ ~qc_ret.built
    /\ qc.program_data_address # DEFAULT_PUBKEY
    /\ \A i \in 1..2 : qc.price_histories[i] # DEFAULT_PUBKEY
    /\ \A i \in 1..2 : qc.oracles[i] = DEFAULT_PUBKEY

\* C5: in both directions the fee rate and the fee destination quote() uses
\* are the ones Pair::find_fee_attrs(input_mint, output_mint) returns: those
\* of the output mint's slot.
C5_FeeFromOutputSlot ==
    (qc_ret.op = "quote" /\ qc_ret.err = "Ok") =>
        LET attrs == find_fee_attrs(pair, qc_ret.input_mint, qc_ret.output_mint)
        IN  /\ qc_ret.quote.fee_pct = attrs.rate
            /\ qc_ret.metas.fee_destination = attrs.collector

(***************************************************************************)
(* Part 4.  The jupiter GfxAmm (src/jupiter/src/jupiter.rs)                *)
(***************************************************************************)

\* jupiter GfxAmm::from_keyed_account: every key is inserted with None,
\* price_histories is vec![], oracles is Default::default(),
\* has_program_data is false.
jup_from_keyed_account(p) ==
    LET d == PairDerived(p)
    IN  [d |-> d,
         has_program_data |-> FALSE,
         price_histories |-> << >>,
         oracles |-> << DEFAULT_PUBKEY, DEFAULT_PUBKEY >>,
         accounts |-> InsertAllNone(<< >>, StaticKeys(d))]

\* The pool-registry branch of update: deserialize, then for each mint in
\* turn find its pool, insert its first price history with None and push it;
\* an error leaves the changes made so far.
jup_registry_branch(s, account) ==
    IF account.t # "PoolRegistry" THEN Outcome(s, "DeserializeFailure")
    ELSE
      LET ssl1 == find_pool(account, s.d.mints[1])
          ssl2 == find_pool(account, s.d.mints[2])
          s1 == [s EXCEPT
                   !.accounts = MapInsert(s.accounts,
                                          ssl1.oracle_price_histories_0, NoAccount),
                   !.price_histories =
                        Append(s.price_histories, ssl1.oracle_price_histories_0)]
          s2 == [s1 EXCEPT
                   !.accounts = MapInsert(s1.accounts,
                                          ssl2.oracle_price_histories_0, NoAccount),
                   !.price_histories =
                        Append(s1.price_histories, ssl2.oracle_price_histories_0)]
      IN  IF ~ssl1.ok THEN Outcome(s, "PoolNotFound")
          ELSE IF ~ssl2.ok THEN Outcome(s1, "PoolNotFound")
          ELSE Outcome(s2, "Ok")

\* A price-history guard that resolves the second oracle only after the first.
jup_history_due_in_turn(s, pubkey, i) ==
    /\ s.price_histories # << >>
    /\ pubkey = s.price_histories[i]
    /\ s.oracles[i] = DEFAULT_PUBKEY
    /\ i = 1 \/ s.oracles[1] # DEFAULT_PUBKEY

\* The guard of the price-history branch for slot i (1 or 2) of update.
jup_history_due(s, pubkey, i) ==
    /\ s.price_histories # << >>
    /\ pubkey = s.price_histories[i]
    /\ s.oracles[i] = DEFAULT_PUBKEY

\* A price-history branch that tracks the oracle without recording it.
jup_history_branch_unrecorded(s, account, i) ==
    IF account.t # "OraclePriceHistory" THEN Outcome(s, "DeserializeFailure")
    ELSE Outcome([s EXCEPT !.accounts =
                     MapInsert(s.accounts, account.oracle_address, NoAccount)], "Ok")

\* The price-history branch of update for slot i.
jup_history_branch(s, account, i) ==
    IF account.t # "OraclePriceHistory" THEN Outcome(s, "DeserializeFailure")
    ELSE LET o == account.oracle_address
         IN  Outcome([s EXCEPT !.accounts = MapInsert(s.accounts, o, NoAccount),
                               !.oracles[i] = o], "Ok")

\* The program-id branch of update: expect() and unreachable!() panic.
jup_program_branch(s, account) ==
    IF account.t # "Program" THEN Outcome(s, "Panic")
    ELSE Outcome([s EXCEPT
                    !.accounts = MapInsert(s.accounts,
                                           account.programdata_address, NoAccount),
                    !.has_program_data = TRUE], "Ok")

jup_update_entry_storing(s, pubkey, account) ==
    Outcome([s EXCEPT !.accounts = MapInsert(s.accounts, pubkey, account)], "Ok")

\* The body of update's loop for one (pubkey, account): the bytes are stored
\* first, then the branches are tried in the order of the code; reading
\* price_histories[1] of a one-element vector panics.
jup_update_entry(s, pubkey, account) ==
    IF pubkey \notin DOMAIN s.accounts THEN Outcome(s, "Ok")
    ELSE
      LET s1 == [s EXCEPT !.accounts[pubkey] = account]
      IN  IF s1.price_histories = << >> /\ pubkey = s1.d.pool_registry
          THEN jup_registry_branch(s1, account)
          ELSE IF jup_history_due(s1, pubkey, 1)
          THEN jup_history_branch(s1, account, 1)
          ELSE IF Len(s1.price_histories) = 1
          THEN Outcome(s1, "Panic")
          ELSE IF jup_history_due(s1, pubkey, 2)
          THEN jup_history_branch(s1, account, 2)
          ELSE IF ~s1.has_program_data /\ pubkey = PROGRAM_ID
          THEN jup_program_branch(s1, account)
          ELSE Outcome(s1, "Ok")

\* update: the loop over the account map in iteration order `order`, the
\* accounts read from ledger c; the first error ends the call.
RECURSIVE jup_update(_, _, _)
jup_update(s, c, order) ==
    IF order = <<>> THEN Outcome(s, "Ok")
    ELSE LET r == jup_update_entry(s, Head(order), Fetch(c, Head(order)))
         IN  IF r.err # "Ok" THEN r ELSE jup_update(r.s, c, Tail(order))

\* The accounts of the Swap instruction the jupiter quote() builds.
jup_swap_metas(s, input_is_mint0) ==
    LET price_histories == IF input_is_mint0
                           THEN << s.price_histories[1], s.price_histories[2] >>
                           ELSE << s.price_histories[2], s.price_histories[1] >>
        signers == IF input_is_mint0 THEN s.d.ssl_signers ELSE Reverse2(s.d.ssl_signers)
        atas == IF input_is_mint0 THEN s.d.user_atas ELSE Reverse2(s.d.user_atas)
        main_vaults == IF input_is_mint0 THEN s.d.main_vaults
                       ELSE Reverse2(s.d.main_vaults)
        secondary_vaults == IF input_is_mint0 THEN s.d.secondary_vaults
                            ELSE Reverse2(s.d.secondary_vaults)
        oracles == IF input_is_mint0 THEN s.oracles ELSE Reverse2(s.oracles)
    IN  [pair |-> s.d.pair,
         pool_registry |-> s.d.pool_registry,
         user_wallet |-> s.d.user_wallet,
         ssl_pool_in_signer |-> signers[1],
         ssl_pool_out_signer |-> signers[2],
         user_ata_in |-> atas[1],
         user_ata_out |-> atas[2],
         ssl_out_main_vault |-> main_vaults[2],
         ssl_out_secondary_vault |-> secondary_vaults[2],
         ssl_in_main_vault |-> main_vaults[1],
         ssl_in_secondary_vault |-> secondary_vaults[1],
         ssl_out_fee_vault |-> IF input_is_mint0 THEN s.d.fee_vaults[2]
                               ELSE s.d.fee_vaults[1],
         fee_destination |-> IF input_is_mint0 THEN s.d.fee_destination[1]
                             ELSE s.d.fee_destination[2],
         output_token_price_history |-> price_histories[2],
         output_token_oracle |-> oracles[2],
         input_token_price_history |-> price_histories[1],
         input_token_oracle |-> oracles[1],
         event_emitter |-> s.d.event_emitter,
         token_program |-> TOKEN_PROGRAM]

\* The guard at the head of the jupiter quote(): TRUE when it throws
\* RequiredAccountUpdate.
jup_unready(s) ==
    \/ ~s.has_program_data
    \/ s.price_histories = << >>
    \/ s.oracles[1] = DEFAULT_PUBKEY
    \/ s.oracles[2] = DEFAULT_PUBKEY

\* jupiter GfxAmm::quote
jup_quote(s, input_mint, output_mint, exec) ==
    IF jup_unready(s) THEN NotReadyResult(input_mint, output_mint)
    ELSE LET input_is_mint0 == input_mint = s.d.mints[1]
         IN  quote_after_build(s.accounts, s.d.fee_rates, input_is_mint0,
                               jup_swap_metas(s, input_is_mint0),
                               input_mint, output_mint, exec)

JupInit ==
    /\ jup = jup_from_keyed_account(pair)
    /\ jup_ret = [op |-> "from_keyed_account", err |-> "Ok"]
    /\ rounds = 0
    /\ keys_before = {}

\* Addresses put into the account maps of single update() calls.
JupInputKeys == InputKeys \cup Oracles

JupBatches ==
    { s \in KeySeqs(JupInputKeys, MaxBatch) : Cardinality(Range(s)) = Len(s) }

\* A call of update() with an account map read from the ledger; a panic
\* leaves the mirror as the unwinding found it.
JupUpdate ==
    /\ \E order \in JupBatches :
          LET r == jup_update(jup, chain, order)
          IN  /\ jup' = r.s
              /\ jup_ret' = [op |-> "update", err |-> r.err]
    /\ UNCHANGED <<ringVars, bandVars, callVars, checkVars, sdkVars, pair, chain, qcVars, rounds, keys_before>>

\* A pair, a ledger and the jupiter mirror constructed from the pair.
JupSpecInit ==
    RingIdle /\ ChainInit /\ QcIdle /\ JupInit /\ BandIdle /\ CallIdle /\ CheckIdle /\ SdkIdle

JupNext ==
    \/ JupUpdate
    \/ ChainSetHistories /\ UNCHANGED <<ringVars, bandVars, callVars, checkVars, sdkVars, qcVars, jupVars>>
    \/ ChainUpgradeProgram /\ UNCHANGED <<ringVars, bandVars, callVars, checkVars, sdkVars, qcVars, jupVars>>

\* The jupiter mirror under update() calls with arbitrary small account
\* maps, against a ledger whose registry and program change.
SpecJup == JupSpecInit /\ [][JupNext]_vars

\* Rounds of get_quote's fetch-and-update loop explored.
MaxRounds == 4

\* One round: fetch every address of get_accounts_to_update(), pass the
\* accounts to update().
JupRound ==
    /\ rounds < MaxRounds
    /\ \E order \in FetchAllOrders(get_accounts_to_update(jup)) :
          LET r == jup_update(jup, chain, order)
          IN  /\ jup' = r.s
              /\ jup_ret' = [op |-> "update", err |-> r.err]
    /\ rounds' = rounds + 1
    /\ keys_before' = get_accounts_to_update(jup)
    /\ UNCHANGED <<ringVars, bandVars, callVars, checkVars, sdkVars, pair, chain, qcVars>>

\* A call of quote() for one direction.
JupQuote ==
    /\ \E dir \in Directions, exec \in ExecutorOutcomes :
          jup_ret' = jup_quote(jup, dir[1], dir[2], exec)
    /\ UNCHANGED <<ringVars, bandVars, callVars, checkVars, sdkVars, pair, chain, qcVars, jup, rounds, keys_before>>

RoundsNext ==
    \/ JupRound
    \/ JupQuote

\* The jupiter mirror as get_quote drives it: rounds that fetch every
\* required address from a ledger that stays as it is, and quotes.
SpecRounds == JupSpecInit /\ [][RoundsNext]_vars

(***************************************************************************)
(* Properties of the jupiter mirror (SpecRounds, SpecJup)                  *)
(***************************************************************************)

\* C6: when every round fetches all required addresses and the ledger
\* returns well-formed accounts, quote() no longer fails with
\* RequiredAccountUpdate once three rounds are done, and a round after the
\* third adds no required address.
C6_ReadyInThreeRounds ==
    /\ (rounds >= 3 /\ jup_ret.op = "quote") => jup_ret.err # "RequiredAccountUpdate"
    /\ rounds >= 3 => ~jup_unready(jup) /\ Stored(jup.accounts, CLOCK)
    /\ rounds > 3 => get_accounts_to_update(jup) = keys_before

\* A quote answered after the third round, and one more round done on a
\* mirror that already tracked both price histories, both oracles and the
\* program data.
C6_FourthRound ==
    /\ rounds = 4
    /\ jup_ret.op = "update"
    /\ jup_ret.err = "Ok"
    /\ Cardinality(keys_before \cap Histories) = 2
    /\ Cardinality(keys_before \cap Oracles) = 2
    /\ Cardinality(keys_before \cap ProgramDatas) = 1

\* The mirror after update() with the account map iterated in `order`.
JupAfter(order) == jup_update(jup, chain, order)

\* The entries of `order` iterated before the entry of key k.
Before(order, k) ==
    SubSeq(order, 1, (CHOOSE i \in DOMAIN order : order[i] = k) - 1)

C11_ReadyAllStored ==
    ~jup_unready(jup) =>
        \A k \in get_accounts_to_update(jup) : Stored(jup.accounts, k)

FeesNext ==
    \/ JupRound
    \/ ChainConfigPair /\ UNCHANGED <<ringVars, bandVars, callVars, checkVars, sdkVars, qcVars, jupVars>>

\* The jupiter mirror under fetch-everything rounds, against a ledger whose
\* Pair account is reconfigured between the rounds.
SpecFees == JupSpecInit /\ [][FeesNext]_vars

\* The fee_destination pair from_keyed_account derives from a Pair account.
FeeDestinationsOf(p) ==
    << find_fee_attrs(p, p.mints[1], p.mints[2]).collector,
       find_fee_attrs(p, p.mints[2], p.mints[1]).collector >>

\* C12: once update() has been given the pair address, the jupiter mirror's
\* fee_rates and fee_destination are those of the Pair account it was given
\* last (the one it holds for the pair address).
C12_FeesRefreshed ==
    Stored(jup.accounts, PAIR) =>
        /\ jup.d.fee_rates = jup.accounts[PAIR].data.fee_rates
        /\ jup.d.fee_destination = FeeDestinationsOf(jup.accounts[PAIR].data)

(***************************************************************************)
(* Properties of latest_price (SpecRing)                                   *)
(***************************************************************************)

\* C13 as stated: latest_price() fails with PriceHistoryEmpty on the never
\* pushed history, and after exactly one push it returns the pushed entry,
\* whatever that entry is.
C13_LatestPrice ==
    /\ Len(pushed) = 0 =>
          latest_price(History) = [ok |-> FALSE, err |-> "PriceHistoryEmpty"]
    /\ Len(pushed) = 1 =>
          latest_price(History) = [ok |-> TRUE, price |-> pushed[1]]

\* C13 amended: latest_price() fails with PriceHistoryEmpty on the never
\* pushed history; after exactly one push it returns the pushed entry when
\* that entry differs from HistoricalPrice::default(), and still fails with
\* PriceHistoryEmpty when the default entry was pushed.
C13_LatestPriceUnlessDefault ==
    /\ Len(pushed) = 0 =>
          latest_price(History) = [ok |-> FALSE, err |-> "PriceHistoryEmpty"]
    /\ Len(pushed) = 1 =>
          latest_price(History) =
              IF pushed[1] = ZeroEntry
              THEN [ok |-> FALSE, err |-> "PriceHistoryEmpty"]
              ELSE [ok |-> TRUE, price |-> pushed[1]]

\* One push of a non-default entry, which latest_price() returns.
C13_OnePush ==
    /\ pushed = << [num |-> 1000, scale |-> 2, slot |-> 1] >>
    /\ num_updates = 1
    /\ latest_price(History).ok
    /\ latest_price(History).price = pushed[1]

(***************************************************************************)
(* Properties of bollinger_band (SpecBand)                                 *)
(***************************************************************************)

\* C14: bollinger_band returns MathError if either window is 0, and otherwise
\* returns EmaOrStdWindowTooLarge exactly when num_updates of self or of the
\* input history is smaller than max(mean_window, std_window); both guards
\* come before any entry is read.
C14_WindowGuards ==
    band_ret.op = "bollinger_band" =>
        LET mw == band_ret.mean_window
            sw == band_ret.std_window
            w == Max2(mw, sw)
            err == band_ret.res.err
        IN  /\ (mw = 0 \/ sw = 0) <=> err = "MathError"
            /\ (mw # 0 /\ sw # 0) =>
                  (err = "EmaOrStdWindowTooLarge"
                     <=> (num_updates < w \/ input_token_history.num_updates < w))
            /\ (num_updates = 5 /\ input_token_history.num_updates = 5
                  /\ mw = 6 /\ sw # 0) => err = "EmaOrStdWindowTooLarge"
            /\ (num_updates = 5 /\ input_token_history.num_updates = 5
                  /\ mw = 5 /\ sw = 5) =>
                      err \notin {"MathError", "EmaOrStdWindowTooLarge"}

\* Five updates on each history: a window of 6 was refused.
C14_FiveUpdatesWindowSix ==
    /\ num_updates = 5
    /\ input_token_history.num_updates = 5
    /\ band_ret.op = "bollinger_band"
    /\ band_ret.mean_window = 6
    /\ band_ret.std_window = 5
    /\ band_ret.res.err = "EmaOrStdWindowTooLarge"

\* The price ratios the last bollinger_band call met inside its window.
WindowRatios ==
    LET pairs == bollinger_pairs(History, band_ret.mean_window,
                                 band_ret.std_window, input_token_history)
    IN  { DecDiv(PriceOf(pairs[i][1]), PriceOf(pairs[i][2])) : i \in DOMAIN pairs }

\* The one ratio of a window whose ratios are all the same.
ConstantRatio == CHOOSE r \in WindowRatios : TRUE

\* n times the Decimal r is a Decimal with r's number of decimal places.
FitsTimes(r, n) == BigCmp(BigMulSmall(r.m, n), TwoPow96) < 0

KeyLen == 2
MaxByte == 2
Pubkeys == [1..KeyLen -> 0..MaxByte]
Registries == {<<1, 0>>, <<2, 1>>}

\* Pubkey derives Ord from its byte array: the first differing byte decides.
RECURSIVE PubkeyLessFrom(_, _, _)
PubkeyLessFrom(a, b, i) ==
    IF i > KeyLen THEN FALSE
    ELSE IF a[i] # b[i] THEN a[i] < b[i]
    ELSE PubkeyLessFrom(a, b, i + 1)

PubkeyLess(a, b) == PubkeyLessFrom(a, b, 1)

\* The value of the byte array read as a big-endian number.
RECURSIVE PubkeyValueFrom(_, _)
PubkeyValueFrom(a, i) ==
    IF i = 0 THEN 0 ELSE PubkeyValueFrom(a, i - 1) * 256 + a[i]

PubkeyValue(a) == PubkeyValueFrom(a, KeyLen)

\* PDAIdentifier::get_address: IDENT is put in front of the seeds and the
\* address is derived from the whole seed list and the program id.
get_address(ident, seeds) ==
    [t |-> "Pda", seeds |-> <<ident>> \o seeds, program |-> "gfx-ssl-v2"]

normalize_mint_order_as_given(mint_one, mint_two) == <<mint_one, mint_two>>

normalize_mint_order(mint_one, mint_two) ==
    IF PubkeyLess(mint_one, mint_two)
    THEN <<mint_one, mint_two>>
    ELSE <<mint_two, mint_one>>

Pair_address(pool_registry, mint_one, mint_two) ==
    LET m == normalize_mint_order(mint_one, mint_two)
    IN get_address("pair", <<pool_registry, m[1], m[2]>>)

PairAddress ==
    \E pool_registry \in Registries, mint_one \in Pubkeys, mint_two \in Pubkeys :
        /\ call_args' = [op |-> "Pair::address", pool_registry |-> pool_registry,
                         mint_one |-> mint_one, mint_two |-> mint_two]
        /\ call_ret' = Pair_address(pool_registry, mint_one, mint_two)

NormalizeMintOrder ==
    \E mint_one \in Pubkeys, mint_two \in Pubkeys :
        /\ call_args' = [op |-> "normalize_mint_order",
                         mint_one |-> mint_one, mint_two |-> mint_two]
        /\ call_ret' = normalize_mint_order(mint_one, mint_two)

PairSpecInit ==
    RingIdle /\ ChainIdle /\ QcIdle /\ JupIdle /\ BandIdle /\ CallIdle /\ CheckIdle /\ SdkIdle

PairNext ==
    \/ PairAddress
        /\ UNCHANGED <<ringVars, bandVars, checkVars, sdkVars, pair, chain, qcVars, jupVars>>
    \/ NormalizeMintOrder
        /\ UNCHANGED <<ringVars, bandVars, checkVars, sdkVars, pair, chain, qcVars, jupVars>>

SpecPair == PairSpecInit /\ [][PairNext]_vars

\* C16: Pair::address gives the same address for both orders of the mints;
\* normalize_mint_order returns the same tuple for both orders, the
\* numerically smaller mint first, and normalizing its result changes nothing.
C16_AddressSymmetric ==
    /\ call_args.op = "Pair::address" =>
        call_ret = Pair_address(call_args.pool_registry,
                                call_args.mint_two, call_args.mint_one)
    /\ call_args.op = "normalize_mint_order" =>
        /\ call_ret = normalize_mint_order(call_args.mint_two, call_args.mint_one)
        /\ PubkeyValue(call_ret[1]) <= PubkeyValue(call_ret[2])
        /\ {call_ret[1], call_ret[2]} = {call_args.mint_one, call_args.mint_two}
        /\ normalize_mint_order(call_ret[1], call_ret[2]) = call_ret

C16_SwappedMints ==
    /\ call_args.op = "Pair::address"
    /\ PubkeyLess(call_args.mint_two, call_args.mint_one)
    /\ call_ret = get_address("pair", <<call_args.pool_registry,
                                        call_args.mint_two, call_args.mint_one>>)

\* ---------------------------------------------------------------------------
\* Part 6: the quote_check process (quote_check/src/main.rs)
\* ---------------------------------------------------------------------------

\* Ticks of the interval explored, the pairs compared, and the out_amounts
\* an executed swap reports.
MaxTicks == 3
NumPairs == 2
OutAmounts == {1, 2}

\* main: one (jupiter GfxAmm, quote_check GfxAmm) per pair, built from the
\* Pair account; the counters start at zero.
CheckInit ==
    checker = [status |-> "running", pc |-> "tick", tick |-> 0, i |-> 1, dir |-> 1,
               compares |-> [k \in 1..NumPairs |->
                                [q |-> jup_from_keyed_account(chain.pair),
                                 s |-> qc_from_keyed_account(chain.pair)]],
               checked |-> 0, errors |-> 0, mismatches |-> 0, last |-> "none"]

\* check_quote_inner: the jupiter quote, then the quote_check quote, each
\* with `?`, then the comparison of the out_amounts.
check_quote_inner(q, s, mint_in, mint_out, exec0, out0, exec1, out1) ==
    LET quote0 == jup_quote(q, mint_in, mint_out, exec0)
        quote1 == qc_quote(s, mint_in, mint_out, exec1)
    IN  IF quote0.err # "Ok" THEN [err |-> quote0.err, mismatch |-> FALSE]
        ELSE IF quote1.err # "Ok" THEN [err |-> quote1.err, mismatch |-> FALSE]
        ELSE [err |-> "Ok", mismatch |-> out0 # out1]

\* The loop position after the direction `dir` of pair `i`.
AfterDirection(c) ==
    IF c.dir = 1 THEN [c EXCEPT !.dir = 2]
    ELSE IF c.i < Len(c.compares) THEN [c EXCEPT !.pc = "update", !.i = c.i + 1, !.dir = 1]
    ELSE [c EXCEPT !.pc = "tick", !.i = 1, !.dir = 1]

check_quote_direction_throwing(c, r) ==
    LET counted == [c EXCEPT !.checked = c.checked + 1,
                             !.mismatches = IF r.mismatch THEN @ + 1 ELSE @]
    IN  IF r.err # "Ok"
        THEN [counted EXCEPT !.status = "exited", !.last = "error"]
        ELSE AfterDirection([counted EXCEPT
                                !.last = IF r.mismatch THEN "mismatch" ELSE "ok"])

\* The body of check_quote's loop over the directions: CHECKED_COUNT, the
\* call, and what is done with its result. A panic unwinds through main.
check_quote_direction(c, r) ==
    LET counted == [c EXCEPT !.checked = c.checked + 1,
                             !.mismatches = IF r.mismatch THEN @ + 1 ELSE @]
    IN  IF r.err = "Panic"
        THEN [counted EXCEPT !.status = "panicked", !.last = "panic"]
        ELSE IF r.err # "Ok"
        THEN AfterDirection([counted EXCEPT !.errors = @ + 1, !.last = "error"])
        ELSE AfterDirection([counted EXCEPT
                                !.last = IF r.mismatch THEN "mismatch" ELSE "ok"])

\* tick.tick(): check_quote starts with the first pair.
CheckTick ==
    /\ checker.status = "running" /\ checker.pc = "tick"
    /\ checker.tick < MaxTicks
    /\ checker' = [checker EXCEPT !.tick = @ + 1, !.pc = "update", !.i = 1, !.dir = 1]

\* check_quote, for one pair, after the two update() calls returned rq and
\* rs: `m.update(&h)?` leaves main on the first error.
check_quote_update(c, rq, rs) ==
    LET upd == [c EXCEPT !.compares[c.i].q = rq.s]
    IN  IF rq.err # "Ok"
        THEN [upd EXCEPT !.status = IF rq.err = "Panic" THEN "panicked" ELSE "exited"]
        ELSE IF rs.err # "Ok"
        THEN [upd EXCEPT !.compares[c.i].s = rs.s,
                         !.status = IF rs.err = "Panic" THEN "panicked" ELSE "exited"]
        ELSE [upd EXCEPT !.compares[c.i].s = rs.s, !.pc = "quote", !.dir = 1]

\* The results update() can give for the account map holding every address
\* of get_accounts_to_update(), over the map's iteration orders.
JupUpdateResults(q) ==
    { jup_update(q, chain, order) : order \in FetchAllOrders(get_accounts_to_update(q)) }

QcUpdateResults(s) ==
    { qc_update(s, chain, order) : order \in FetchAllOrders(get_accounts_to_update(s)) }

\* check_quote, for one pair: both mirrors are given the accounts of their
\* get_accounts_to_update().
CheckUpdate ==
    /\ checker.status = "running" /\ checker.pc = "update"
    /\ \E rq \in JupUpdateResults(checker.compares[checker.i].q),
          rs \in QcUpdateResults(checker.compares[checker.i].s) :
          checker' = check_quote_update(checker, rq, rs)

\* check_quote, for one direction of one pair.
CheckDirection ==
    /\ checker.status = "running" /\ checker.pc = "quote"
    /\ LET m == checker.compares[checker.i]
           mints == IF checker.dir = 1 THEN <<MINT_A, MINT_B>> ELSE <<MINT_B, MINT_A>>
       IN  \E exec0 \in ExecutorOutcomes, exec1 \in ExecutorOutcomes,
              out0 \in OutAmounts, out1 \in OutAmounts :
              checker' = check_quote_direction(checker,
                            check_quote_inner(m.q, m.s, mints[1], mints[2],
                                              exec0, out0, exec1, out1))

CheckSpecInit ==
    RingIdle /\ ChainInit /\ QcIdle /\ JupIdle /\ BandIdle /\ CallIdle /\ CheckInit /\ SdkIdle

CheckRest == UNCHANGED <<ringVars, bandVars, callVars, sdkVars, pair, chain, qcVars, jupVars>>

CheckNext ==
    \/ CheckTick /\ CheckRest
    \/ CheckUpdate /\ CheckRest
    \/ CheckDirection /\ CheckRest

\* CheckUpdate is enabled exactly in the running process's "update"
\* position and every CheckUpdate step leaves that position.
AtUpdate == checker.status = "running" /\ checker.pc = "update"

\* The process with a ledger that stays as it is. The interval keeps
\* ticking and a started check_quote runs on: weak fairness of each step,
\* the one of CheckUpdate written with its enabling condition.
SpecCheck ==
    /\ CheckSpecInit /\ [][CheckNext]_vars
    /\ WF_vars(CheckTick /\ CheckRest)
    /\ WF_vars(CheckDirection /\ CheckRest)
    /\ []<>(~AtUpdate)

\* C17: a quote that fails in either implementation, or two out_amounts that
\* differ, never end the process: the direction is counted in CHECKED_COUNT
\* and in ERROR_COUNT or MISMATCH_COUNT, nothing else changes, the loop
\* moves to the next direction, pair or tick, and whatever the quotes do
\* both directions of every pair are checked on every tick.
C17_BadQuoteOnlyCounted ==
    /\ [][ checker.status = "running" /\ checker.pc = "quote" =>
            /\ checker'.status = "running"
            /\ checker'.checked = checker.checked + 1
            /\ checker'.compares = checker.compares
            /\ checker'.tick = checker.tick
            /\ checker'.last \in {"ok", "error", "mismatch"}
            /\ checker'.errors =
                  checker.errors + (IF checker'.last = "error" THEN 1 ELSE 0)
            /\ checker'.mismatches =
                  checker.mismatches + (IF checker'.last = "mismatch" THEN 1 ELSE 0)
            /\ IF checker.dir = 1
               THEN checker'.pc = "quote" /\ checker'.i = checker.i /\ checker'.dir = 2
               ELSE IF checker.i < NumPairs
               THEN checker'.pc = "update" /\ checker'.i = checker.i + 1
               ELSE checker'.pc = "tick" ]_vars
    /\ <>(checker.status = "running" /\ checker.checked = 2 * NumPairs * MaxTicks)

\* An error and a mismatch were counted, and on a later tick a direction of
\* the last pair was checked and agreed.
C17_CheckedAfterBadQuotes ==
    /\ checker.status = "running"
    /\ checker.tick >= 2 /\ checker.pc = "tick"
    /\ checker.errors >= 1 /\ checker.mismatches >= 1
    /\ checker.last = "ok"

\* ---------------------------------------------------------------------------
\* Part 7: both mirrors under the same account maps
\* ---------------------------------------------------------------------------

\* update() of both mirrors with an account map holding the same addresses.
MirrorsUpdate ==
    /\ \E order \in JupBatches :
          LET rj == jup_update(jup, chain, order)
              rq == qc_update(qc, chain, order)
          IN  /\ jup' = rj.s
              /\ jup_ret' = [op |-> "update", err |-> rj.err]
              /\ qc' = rq.s
              /\ qc_ret' = [op |-> "update", err |-> rq.err]
    /\ UNCHANGED <<ringVars, bandVars, callVars, checkVars, sdkVars, pair, chain, rounds, keys_before>>

MirrorsSpecInit ==
    RingIdle /\ ChainInit /\ QcInit /\ JupInit /\ BandIdle /\ CallIdle /\ CheckIdle /\ SdkIdle

MirrorsNext ==
    \/ MirrorsUpdate
    \/ ChainUpgradeProgram /\ UNCHANGED <<ringVars, bandVars, callVars, checkVars, sdkVars, qcVars, jupVars>>

\* The two mirrors of one pair under update() calls with arbitrary small
\* account maps, against a ledger whose program changes.
SpecMirrors == MirrorsSpecInit /\ [][MirrorsNext]_vars

\* Accounts an account map can hold under an address: the one the ledger
\* has there, or the registry, the program or a price history.
AccountsUnder(k) ==
    {Fetch(chain, k), chain.reg, chain.prog, Fetch(chain, "oph_1")}

JupUntracked == JupInputKeys \ DOMAIN jup.accounts
QcUntracked == JupInputKeys \ DOMAIN qc.accounts

\* C18: an entry of the account map whose address the mirror does not track
\* leaves the mirror as it was, whatever account it carries: nothing is
\* stored, no key is added, price_histories, oracles and the program-data
\* state stay; a map of such entries only does nothing, and next to another
\* entry the result is that of the other entry alone.
C18_UntrackedEntryIgnored ==
    /\ \A k \in JupUntracked : \A account \in AccountsUnder(k) :
          jup_update_entry(jup, k, account) = Outcome(jup, "Ok")
    /\ \A k \in QcUntracked : \A account \in AccountsUnder(k) :
          qc_update_entry(qc, k, account) = Outcome(qc, "Ok")
    /\ \A order \in JupBatches :
          /\ Range(order) \subseteq JupUntracked =>
                jup_update(jup, chain, order) = Outcome(jup, "Ok")
          /\ Range(order) \subseteq QcUntracked =>
                qc_update(qc, chain, order) = Outcome(qc, "Ok")
          /\ Len(order) = 2 /\ order[1] \in JupUntracked =>
                jup_update(jup, chain, order) = jup_update(jup, chain, <<order[2]>>)
          /\ Len(order) = 2 /\ order[1] \in QcUntracked =>
                qc_update(qc, chain, order) = qc_update(qc, chain, <<order[2]>>)

\* Both mirrors have resolved their price histories and a third history,
\* an oracle and a program-data address of the ledger are not tracked.
C18_UntrackedKeysLeft ==
    /\ jup.price_histories # << >>
    /\ qc.price_histories[1] # DEFAULT_PUBKEY
    /\ JupUntracked \cap Histories # {} /\ JupUntracked \cap Oracles # {}
    /\ QcUntracked \cap Histories # {} /\ QcUntracked \cap ProgramDatas # {}

\* ---------------------------------------------------------------------------
\* Part 8: the sdk GfxAmm (sdk/src/jupiter.rs, sdk/src/state.rs,
\* sdk/src/instructions.rs)
\* ---------------------------------------------------------------------------

\* An address that is not derived from others.
Key(name) == [t |-> "Key", name |-> name]

NoneOpt == [t |-> "None"]
SomeOpt(x) == [t |-> "Some", v |-> x]

\* The derived addresses: each is the PDA of its IDENT and seeds, or the
\* associated token account of an owner and a mint.
PoolRegistry_address(seed) == get_address("pool_registry", <<seed>>)
OraclePriceHistory_address(pool_registry, oracle_address) ==
    get_address("oracle_price_history", <<pool_registry, oracle_address>>)
SSLPool_signer_address(pool_registry, mint) ==
    get_address("ssl_pool", <<pool_registry, mint>>)
EventEmitter_address == get_address("event", << >>)
\* get_associated_token_address, as the sdk uses it: owner and mint decide.
associated_token_address(owner, mint) == [t |-> "Ata", owner |-> owner, mint |-> mint]

\* The ledger the sdk GfxAmm is used with: one registry with the pools of two
\* mints, their price histories, and the Pair account of the two mints.
SdkMintA == <<0, 1>>
SdkMintB == <<1, 0>>
SdkRegistry == PoolRegistry_address(Key("admin"))
SdkHistoryA == OraclePriceHistory_address(SdkRegistry, Key("oracle_a"))
SdkHistoryB == OraclePriceHistory_address(SdkRegistry, Key("oracle_b"))
SdkRegistryAccount ==
    [t |-> "PoolRegistry", seed |-> Key("admin"),
     entries |-> (SdkMintA :> SdkHistoryA) @@ (SdkMintB :> SdkHistoryB)]
SdkPairs ==
    { [pool_registry |-> SdkRegistry, mints |-> <<SdkMintA, SdkMintB>>,
       fee_collector |-> c, fee_rates |-> <<5, 30>>] :
         c \in { <<Key("collector_1"), Key("collector_2")>>, <<Key("collector_2"), Key("collector_1")>> } }
SdkVault(signer_mint, mint) ==
    associated_token_address(SSLPool_signer_address(SdkRegistry, signer_mint), mint)
SdkLedger(p) ==
    (SdkRegistry :> SdkRegistryAccount)
    @@ (Pair_address(p.pool_registry, p.mints[1], p.mints[2]) :> PairAccount(p))
    @@ (SdkHistoryA :> [t |-> "OraclePriceHistory", oracle_address |-> Key("oracle_a")])
    @@ (SdkHistoryB :> [t |-> "OraclePriceHistory", oracle_address |-> Key("oracle_b")])
    @@ [v \in { SdkVault(sm, m) : sm \in {SdkMintA, SdkMintB}, m \in {SdkMintA, SdkMintB} }
          |-> [t |-> "TokenAccount", mint |-> v.mint]]

\* sdk GfxAmm::from_keyed_account
sdk_from_keyed_account(key, account) ==
    IF account.t # "Pair"
    THEN [ok |-> FALSE, err |-> "DeserializeFailure"]
    ELSE LET p == account.data
             ssl_a_signer == SSLPool_signer_address(p.pool_registry, p.mints[1])
             ssl_b_signer == SSLPool_signer_address(p.pool_registry, p.mints[2])
         IN  [ok |-> TRUE,
              amm |-> [pool_registry_address |-> p.pool_registry,
                       pool_registry |-> NoneOpt,
                       ssl_a_mint |-> p.mints[1],
                       ssl_b_mint |-> p.mints[2],
                       mint_a_price_history_address |-> NoneOpt,
                       mint_b_price_history_address |-> NoneOpt,
                       mint_a_price_history |-> NoneOpt,
                       mint_b_price_history |-> NoneOpt,
                       ssl_a_vault_a |-> associated_token_address(ssl_a_signer, p.mints[1]),
                       ssl_a_vault_a_data |-> NoneOpt,
                       ssl_a_vault_b |-> associated_token_address(ssl_a_signer, p.mints[2]),
                       ssl_a_vault_b_data |-> NoneOpt,
                       ssl_b_vault_a |-> associated_token_address(ssl_b_signer, p.mints[1]),
                       ssl_b_vault_a_data |-> NoneOpt,
                       ssl_b_vault_b |-> associated_token_address(ssl_b_signer, p.mints[2]),
                       ssl_b_vault_b_data |-> NoneOpt,
                       pair_pubkey |-> key,
                       pair_data |-> SomeOpt(account),
                       pair |-> SomeOpt(p)]]

\* sdk GfxAmm::new
sdk_new(pool_registry, p, price_history_a, price_history_b, ssl_a_vault_a, ssl_a_vault_b, ssl_b_vault_a, ssl_b_vault_b) ==
    IF PoolRegistry_address(pool_registry.seed) # p.pool_registry
    THEN [ok |-> FALSE, err |-> "InconsistentInitializationData"]
    ELSE IF ~find_pool(pool_registry, p.mints[1]).ok \/ ~find_pool(pool_registry, p.mints[2]).ok
    THEN [ok |-> FALSE, err |-> "InconsistentInitializationData"]
    ELSE LET ssl_a == find_pool(pool_registry, p.mints[1])
             ssl_b == find_pool(pool_registry, p.mints[2])
             ssl_a_signer == SSLPool_signer_address(p.pool_registry, p.mints[1])
             ssl_b_signer == SSLPool_signer_address(p.pool_registry, p.mints[2])
         IN  [ok |-> TRUE,
              amm |-> [pool_registry_address |-> PoolRegistry_address(p.pool_registry),
                       pool_registry |-> SomeOpt(pool_registry),
                       ssl_a_mint |-> p.mints[1],
                       ssl_b_mint |-> p.mints[2],
                       mint_a_price_history_address |-> SomeOpt(ssl_a.oracle_price_histories_0),
                       mint_b_price_history_address |-> SomeOpt(ssl_b.oracle_price_histories_0),
                       mint_a_price_history |-> SomeOpt(price_history_a),
                       mint_b_price_history |-> SomeOpt(price_history_b),
                       ssl_a_vault_a |-> associated_token_address(ssl_a_signer, p.mints[1]),
                       ssl_a_vault_a_data |-> SomeOpt(ssl_a_vault_a),
                       ssl_a_vault_b |-> associated_token_address(ssl_a_signer, p.mints[2]),
                       ssl_a_vault_b_data |-> SomeOpt(ssl_a_vault_b),
                       ssl_b_vault_a |-> associated_token_address(ssl_b_signer, p.mints[1]),
                       ssl_b_vault_a_data |-> SomeOpt(ssl_b_vault_a),
                       ssl_b_vault_b |-> associated_token_address(ssl_b_signer, p.mints[2]),
                       ssl_b_vault_b_data |-> SomeOpt(ssl_b_vault_b),
                       pair_pubkey |-> Pair_address(p.pool_registry, p.mints[1], p.mints[2]),
                       pair_data |-> SomeOpt(PairAccount(p)),
                       pair |-> SomeOpt(p)]]

\* update_token_account, for the vault field `f`
sdk_update_token_account(s, f, account) ==
    IF account.t # "TokenAccount" THEN Outcome(s, "DeserializeFailure")
    ELSE Outcome([s EXCEPT ![f] = SomeOpt(account)], "Ok")

\* The last branch of update: the two price histories, tried one after the
\* other.
sdk_update_histories(s, pubkey, account) ==
    LET hit_a == s.mint_a_price_history_address = SomeOpt(pubkey)
        hit_b == s.mint_b_price_history_address = SomeOpt(pubkey)
    IN  IF (hit_a \/ hit_b) /\ account.t # "OraclePriceHistory"
        THEN Outcome(s, "DeserializeFailure")
        ELSE Outcome([s EXCEPT
                        !.mint_a_price_history = IF hit_a THEN SomeOpt(account) ELSE @,
                        !.mint_b_price_history = IF hit_b THEN SomeOpt(account) ELSE @],
                     "Ok")

\* The body of the sdk update's loop for one (pubkey, account).
sdk_update_entry(s, pubkey, account) ==
    IF pubkey = s.pool_registry_address
    THEN IF account.t # "PoolRegistry" THEN Outcome(s, "DeserializeFailure")
         ELSE IF ~find_pool(account, s.ssl_a_mint).ok THEN Outcome(s, "PoolNotFound")
         ELSE LET s1 == [s EXCEPT !.mint_a_price_history_address =
                            SomeOpt(find_pool(account, s.ssl_a_mint).oracle_price_histories_0)]
              IN  IF ~find_pool(account, s.ssl_b_mint).ok THEN Outcome(s1, "PoolNotFound")
                  ELSE Outcome([s1 EXCEPT
                          !.mint_b_price_history_address =
                             SomeOpt(find_pool(account, s.ssl_b_mint).oracle_price_histories_0),
                          !.pool_registry = SomeOpt(account)], "Ok")
    ELSE IF pubkey = s.pair_pubkey
    THEN IF account.t # "Pair" THEN Outcome(s, "DeserializeFailure")
         ELSE Outcome([s EXCEPT !.pair = SomeOpt(account.data)], "Ok")
    ELSE IF pubkey = s.ssl_a_vault_a
    THEN sdk_update_token_account(s, "ssl_a_vault_a_data", account)
    ELSE IF pubkey = s.ssl_a_vault_b
    THEN sdk_update_token_account(s, "ssl_a_vault_b_data", account)
    ELSE IF pubkey = s.ssl_b_vault_a
    THEN sdk_update_token_account(s, "ssl_b_vault_a_data", account)
    ELSE IF pubkey = s.ssl_b_vault_b
    THEN sdk_update_token_account(s, "ssl_b_vault_b_data", account)
    ELSE sdk_update_histories(s, pubkey, account)

\* sdk GfxAmm::update over the account map in iteration order `order`.
RECURSIVE sdk_update(_, _, _)
sdk_update(s, ledger, order) ==
    IF order = <<>> THEN Outcome(s, "Ok")
    ELSE LET r == sdk_update_entry(s, Head(order), ledger[Head(order)])
         IN  IF r.err # "Ok" THEN r ELSE sdk_update(r.s, ledger, Tail(order))

\* state::get_account_metas_for_swap: the accounts of the Swap instruction.
get_account_metas_for_swap(pool_registry, user_wallet, mint_in, mint_out, input_token_oracle, output_token_oracle, fee_destination) ==
    LET ssl_pool_in_signer == SSLPool_signer_address(pool_registry, mint_in)
        ssl_pool_out_signer == SSLPool_signer_address(pool_registry, mint_out)
    IN  [pair |-> Pair_address(pool_registry, mint_in, mint_out),
         pool_registry |-> pool_registry,
         user_wallet |-> user_wallet,
         ssl_pool_in_signer |-> ssl_pool_in_signer,
         ssl_pool_out_signer |-> ssl_pool_out_signer,
         user_ata_in |-> associated_token_address(user_wallet, mint_in),
         user_ata_out |-> associated_token_address(user_wallet, mint_out),
         ssl_out_main_vault |-> associated_token_address(ssl_pool_out_signer, mint_out),
         ssl_out_secondary_vault |-> associated_token_address(ssl_pool_out_signer, mint_in),
         ssl_in_main_vault |-> associated_token_address(ssl_pool_in_signer, mint_in),
         ssl_in_secondary_vault |-> associated_token_address(ssl_pool_in_signer, mint_out),
         ssl_out_fee_vault |-> associated_token_address(pool_registry, mint_out),
         fee_destination |-> fee_destination,
         output_token_price_history |->
             OraclePriceHistory_address(pool_registry, output_token_oracle),
         output_token_oracle |-> output_token_oracle,
         input_token_price_history |->
             OraclePriceHistory_address(pool_registry, input_token_oracle),
         input_token_oracle |-> input_token_oracle,
         event_emitter |-> EventEmitter_address,
         token_program |-> TOKEN_PROGRAM]

\* instructions::swap
swap(amount_in, min_out, pool_registry, user_wallet, mint_in, mint_out, input_token_oracle, output_token_oracle, fee_destination) ==
    [program_id |-> "gfx-ssl-v2",
     accounts |-> get_account_metas_for_swap(pool_registry, user_wallet, mint_in, mint_out,
                                             input_token_oracle, output_token_oracle,
                                             fee_destination),
     data |-> [amount_in |-> amount_in, min_out |-> min_out]]

\* sdk GfxAmm::get_swap_and_account_metas
sdk_get_swap_and_account_metas(s, source_mint, token_transfer_authority) ==
    IF \/ s.pair = NoneOpt
       \/ s.mint_a_price_history = NoneOpt
       \/ s.mint_b_price_history = NoneOpt
    THEN [err |-> "RequiredAccountUpdate"]
    ELSE LET a_in == source_mint = s.ssl_a_mint
             mint_in == IF a_in THEN s.ssl_a_mint ELSE s.ssl_b_mint
             mint_out == IF a_in THEN s.ssl_b_mint ELSE s.ssl_a_mint
             input_token_price_history ==
                 IF a_in THEN s.mint_a_price_history.v ELSE s.mint_b_price_history.v
             output_token_price_history ==
                 IF a_in THEN s.mint_b_price_history.v ELSE s.mint_a_price_history.v
             p == s.pair.v
             fee_destination == IF p.mints[1] = mint_out THEN p.fee_collector[1]
                                ELSE p.fee_collector[2]
         IN  [err |-> "Ok", swap |-> "GooseFX",
              account_metas |->
                 get_account_metas_for_swap(s.pool_registry_address,
                                            token_transfer_authority, mint_in, mint_out,
                                            input_token_price_history.oracle_address,
                                            output_token_price_history.oracle_address,
                                            fee_destination)]

\* The GfxAmm is built from the Pair account alone, or from the accounts of
\* the ledger with GfxAmm::new.
SdkInit ==
    /\ pair \in SdkPairs
    /\ chain = SdkLedger(pair)
    /\ sdk \in { sdk_from_keyed_account(
                     Pair_address(pair.pool_registry, pair.mints[1], pair.mints[2]),
                     PairAccount(pair)).amm,
                 sdk_new(SdkRegistryAccount, pair, chain[SdkHistoryA], chain[SdkHistoryB],
                         chain[SdkVault(SdkMintA, SdkMintA)],
                         chain[SdkVault(SdkMintA, SdkMintB)],
                         chain[SdkVault(SdkMintB, SdkMintA)],
                         chain[SdkVault(SdkMintB, SdkMintB)]).amm }
    /\ sdk_ret = [op |-> "constructed", err |-> "Ok"]

\* Account maps given to the sdk update(): accounts of the ledger.
SdkBatches ==
    { s \in KeySeqs(DOMAIN chain, MaxBatch) : Cardinality(Range(s)) = Len(s) }

SdkUpdate ==
    /\ \E order \in SdkBatches :
          LET r == sdk_update(sdk, chain, order)
          IN  /\ sdk' = r.s
              /\ sdk_ret' = [op |-> "update", err |-> r.err]

\* Callers that sign the swap.
TransferAuthorities == {Key("user_wallet"), Key("other_wallet")}

SdkSwapMetas ==
    /\ \E source_mint \in {SdkMintA, SdkMintB},
          token_transfer_authority \in TransferAuthorities :
          sdk_ret' = [op |-> "get_swap_and_account_metas",
                      source_mint |-> source_mint,
                      token_transfer_authority |-> token_transfer_authority]
                     @@ sdk_get_swap_and_account_metas(sdk, source_mint,
                                                       token_transfer_authority)
    /\ UNCHANGED sdk

SdkSpecInit ==
    RingIdle /\ QcIdle /\ JupIdle /\ BandIdle /\ CallIdle /\ CheckIdle /\ SdkInit

SdkRest == UNCHANGED <<ringVars, bandVars, callVars, checkVars, pair, chain, qcVars, jupVars>>

SdkNext ==
    \/ SdkUpdate /\ SdkRest
    \/ SdkSwapMetas /\ SdkRest

\* The sdk GfxAmm of a pair under update() calls with small account maps of
\* a ledger that stays as it is, and get_swap_and_account_metas calls.
SpecSdk == SdkSpecInit /\ [][SdkNext]_vars

\* C19: the account metas get_swap_and_account_metas returns are those of
\* instructions::swap for the pair's pool registry, the transfer authority,
\* the direction's mints, the oracle addresses of the two price histories
\* and the pair's fee_collector entry of the output mint.
C19_MetasOfSwapInstruction ==
    sdk_ret.op = "get_swap_and_account_metas" /\ sdk_ret.err = "Ok" =>
        LET p == sdk.pair.v
            a_in == sdk_ret.source_mint = p.mints[1]
            mint_in == IF a_in THEN p.mints[1] ELSE p.mints[2]
            mint_out == IF a_in THEN p.mints[2] ELSE p.mints[1]
            oracle_a == sdk.mint_a_price_history.v.oracle_address
            oracle_b == sdk.mint_b_price_history.v.oracle_address
        IN  sdk_ret.account_metas =
               swap(0, 0, p.pool_registry, sdk_ret.token_transfer_authority,
                    mint_in, mint_out,
                    IF a_in THEN oracle_a ELSE oracle_b,
                    IF a_in THEN oracle_b ELSE oracle_a,
                    IF a_in THEN p.fee_collector[2] ELSE p.fee_collector[1]).accounts

\* ---------------------------------------------------------------------------
\* Part 9: the account bytes of OraclePriceHistory
\* (state/oracle_price_history/mod.rs, historical_price.rs)
\* ---------------------------------------------------------------------------

\* The layout of the #[repr(C)] struct: byte offsets of num_updates and of
\* price_history, the size of an entry and of the struct.
DISCRIMINATOR_LEN == 8
NUM_UPDATES_OFFSET == 104
PRICE_HISTORY_OFFSET == 240
HISTORICAL_PRICE_SIZE == 24
ORACLE_PRICE_HISTORY_SIZE == 6384

\* OraclePriceHistory::discriminator(): the first eight bytes of
\* sha256("account:OraclePriceHistory").
Discriminator == <<180, 252, 163, 223, 218, 49, 27, 242>>

\* Byte k (0 the lowest) of the little-endian image of an unsigned integer;
\* the values of the model stay below 2^31, so bytes 4 and up are zero.
LEByte(v, k) ==
    CASE k = 0 -> v % 256
      [] k = 1 -> (v \div 256) % 256
      [] k = 2 -> (v \div 65536) % 256
      [] k = 3 -> (v \div 16777216) % 256
      [] OTHER -> 0

\* The unsigned integer whose n-byte little-endian image starts at index
\* `at` of b; an image beyond the model's integers is kept as its bytes.
LEValue(b, at, n) ==
    IF b[at + 3] < 128 /\ \A k \in 4..(n - 1) : b[at + k] = 0
    THEN b[at] + 256 * b[at + 1] + 65536 * b[at + 2] + 16777216 * b[at + 3]
    ELSE [k \in 0..(n - 1) |-> b[at + k]]

\* bytemuck::bytes_of(self), byte o of HISTORICAL_PRICE_SIZE: num (i64, not
\* negative here), scale (u32), inv (f32, 0.0 in every entry pushed), slot
\* (u64).
HistoricalPriceByte(e, o) ==
    IF o < 8 THEN LEByte(e.num, o)
    ELSE IF o < 12 THEN LEByte(e.scale, o - 8)
    ELSE IF o < 16 THEN 0
    ELSE LEByte(e.slot, o - 16)

\* bytemuck::bytes_of(self), byte o of ORACLE_PRICE_HISTORY_SIZE: the fields
\* before num_updates and _space are as OraclePriceHistory::default()
\* leaves them, zeroed.
OraclePriceHistoryByte(h, o) ==
    IF o < NUM_UPDATES_OFFSET THEN 0
    ELSE IF o < NUM_UPDATES_OFFSET + 8 THEN LEByte(h.num_updates, o - NUM_UPDATES_OFFSET)
    ELSE IF o < PRICE_HISTORY_OFFSET THEN 0
    ELSE HistoricalPriceByte(
            h.price_history[(o - PRICE_HISTORY_OFFSET) \div HISTORICAL_PRICE_SIZE],
            (o - PRICE_HISTORY_OFFSET) % HISTORICAL_PRICE_SIZE)

try_serialize_without_discriminator(h) ==
    [i \in 0..(ORACLE_PRICE_HISTORY_SIZE - 1) |-> OraclePriceHistoryByte(h, i)]

\* AccountSerialize::try_serialize: the discriminator, then the bytes of the
\* struct. The bytes are indexed from 0.
try_serialize(h) ==
    [i \in 0..(DISCRIMINATOR_LEN + ORACLE_PRICE_HISTORY_SIZE - 1) |->
        IF i < DISCRIMINATOR_LEN THEN Discriminator[i + 1]
        ELSE OraclePriceHistoryByte(h, i - DISCRIMINATOR_LEN)]

\* The entry read back from HISTORICAL_PRICE_SIZE bytes at index `at`.
HistoricalPriceFrom(b, at) ==
    [num |-> LEValue(b, at, 8), scale |-> LEValue(b, at + 8, 4),
     slot |-> LEValue(b, at + 16, 8)]

\* AccountDeserialize::try_deserialize of #[account(zero_copy)]: the
\* discriminator is checked, then the bytes after it are read as the struct.
try_deserialize(b) ==
    LET len == Cardinality(DOMAIN b)
    IN  IF len < DISCRIMINATOR_LEN
        THEN [ok |-> FALSE, err |-> "AccountDiscriminatorNotFound"]
        ELSE IF \E i \in 0..(DISCRIMINATOR_LEN - 1) : b[i] # Discriminator[i + 1]
        THEN [ok |-> FALSE, err |-> "AccountDiscriminatorMismatch"]
        ELSE IF len < DISCRIMINATOR_LEN + ORACLE_PRICE_HISTORY_SIZE
        THEN [ok |-> FALSE, err |-> "Panic"]
        ELSE [ok |-> TRUE,
              history |->
                 [num_updates |-> LEValue(b, DISCRIMINATOR_LEN + NUM_UPDATES_OFFSET, 8),
                  price_history |->
                     [k \in 0..(NUM_HISTORICAL_PRICE_ENTRIES - 1) |->
                        HistoricalPriceFrom(b, DISCRIMINATOR_LEN + PRICE_HISTORY_OFFSET
                                               + k * HISTORICAL_PRICE_SIZE)]]]

\* C20: after any sequence of pushes, try_deserialize of the try_serialize
\* bytes succeeds and gives a history with the same num_updates and the same
\* price_history entries, hence the same most_recent_entry().
C20_SerializeRoundTrip ==
    LET r == try_deserialize(try_serialize(History))
    IN  /\ r.ok
        /\ r.history.num_updates = num_updates
        /\ r.history.price_history = price_history
        /\ most_recent_entry(r.history) = most_recent_entry(History)

\* The array has wrapped and the newest entry, not the zeroed one, comes
\* back from the bytes.
C20_WrappedRoundTrip ==
    /\ num_updates > NUM_HISTORICAL_PRICE_ENTRIES
    /\ most_recent_entry(History) # ZeroEntry
    /\ try_deserialize(try_serialize(History)).ok
    /\ most_recent_entry(try_deserialize(try_serialize(History)).history)
          = pushed[Len(pushed)]

\* ---------------------------------------------------------------------------
\* Part 10: pool token ratio categories (sdk/ui_types.rs,
\* state/pool_registry/token_ratio_category.rs)
\* ---------------------------------------------------------------------------

NUM_ASSET_TYPES == 3

\* The categories in the order the ratios are stored in, which is not the
\* order of the enum's variants (Uninitialized, BlueChip, Volatile, Stable,
\* Invalid).
ASSET_TYPES == <<"BlueChip", "Stable", "Volatile">>
AssetTypes == {"Uninitialized", "BlueChip", "Volatile", "Stable", "Invalid"}

\* The discriminant of an AssetType variant.
AssetTypeDiscriminant(t) ==
    CASE t = "Uninitialized" -> 0 [] t = "BlueChip" -> 1 [] t = "Volatile" -> 2
      [] t = "Stable" -> 3 [] t = "Invalid" -> 4

\* ASSET_TYPES.iter().position(|t| *t == *token), counted from 0.
asset_type_position(token) ==
    IF \E k \in DOMAIN ASSET_TYPES : ASSET_TYPES[k] = token
    THEN SomeOpt((CHOOSE k \in DOMAIN ASSET_TYPES : ASSET_TYPES[k] = token) - 1)
    ELSE NoneOpt

index_of_by_discriminant(input_token, output_token) ==
    IF input_token \notin {"BlueChip", "Volatile", "Stable"}
        \/ output_token \notin {"BlueChip", "Volatile", "Stable"}
    THEN [ok |-> FALSE, err |-> "InvalidAssetType"]
    ELSE [ok |-> TRUE,
          v |-> (AssetTypeDiscriminant(input_token) - 1) * NUM_ASSET_TYPES
                + (AssetTypeDiscriminant(output_token) - 1)]

index_of(input_token, output_token) ==
    LET input_token_idx == asset_type_position(input_token)
        output_token_idx == asset_type_position(output_token)
    IN  IF input_token_idx = NoneOpt THEN [ok |-> FALSE, err |-> "InvalidAssetType"]
        ELSE IF output_token_idx = NoneOpt THEN [ok |-> FALSE, err |-> "InvalidAssetType"]
        ELSE [ok |-> TRUE, v |-> (input_token_idx.v * NUM_ASSET_TYPES) + output_token_idx.v]

from_ratio_at_index(idx, pool_token_ratio) ==
    IF idx >= 9 THEN NoneOpt
    ELSE SomeOpt([input_token |-> ASSET_TYPES[(idx \div NUM_ASSET_TYPES) + 1],
                  output_token |-> ASSET_TYPES[(idx % NUM_ASSET_TYPES) + 1],
                  pool_token_ratio |-> pool_token_ratio])

\* The indices and the u16 ratios the calls are made with.
MaxIndex == 20
PoolTokenRatios == {0, 1, 99, 10000, 65535}

FromRatioAtIndex ==
    \E idx \in 0..MaxIndex, pool_token_ratio \in PoolTokenRatios :
        /\ call_args' = [op |-> "from_ratio_at_index", idx |-> idx,
                         pool_token_ratio |-> pool_token_ratio]
        /\ call_ret' = from_ratio_at_index(idx, pool_token_ratio)

IndexOf ==
    \E input_token \in AssetTypes, output_token \in AssetTypes :
        /\ call_args' = [op |-> "index_of", input_token |-> input_token,
                         output_token |-> output_token]
        /\ call_ret' = index_of(input_token, output_token)

RatioNext ==
    \/ FromRatioAtIndex
        /\ UNCHANGED <<ringVars, bandVars, checkVars, sdkVars, pair, chain, qcVars, jupVars>>
    \/ IndexOf
        /\ UNCHANGED <<ringVars, bandVars, checkVars, sdkVars, pair, chain, qcVars, jupVars>>

SpecRatio == PairSpecInit /\ [][RatioNext]_vars

\* C21: for an index below 9, from_ratio_at_index gives a ratio whose input
\* and output asset types index_of maps back to that index (and which carries
\* the ratio passed in); for an index of 9 or more it gives None.
C21_IndexRoundTrip ==
    call_args.op = "from_ratio_at_index" =>
        IF call_args.idx < 9
        THEN /\ call_ret.t = "Some"
             /\ call_ret.v.pool_token_ratio = call_args.pool_token_ratio
             /\ index_of(call_ret.v.input_token, call_ret.v.output_token)
                    = [ok |-> TRUE, v |-> call_args.idx]
        ELSE call_ret = NoneOpt

\* Index 7 is Volatile --> Stable, where the stored order and the enum's
\* order of the variants differ.
C21_VolatileToStable ==
    /\ call_args.op = "from_ratio_at_index"
    /\ call_args.idx = 7
    /\ call_ret = SomeOpt([input_token |-> "Volatile", output_token |-> "Stable",
                           pool_token_ratio |-> 99])

\* ---------------------------------------------------------------------------
\* Part 11: what a ready mirror holds
\* ---------------------------------------------------------------------------

\* C22: whenever ready() holds on the quote_check mirror, for each mint index
\* the account stored under price_histories[i] is populated, and the
\* oracle_address recorded in it is oracles[i].
C22_ReadyHistoryMatchesOracle ==
    qc_ready(qc) =>
        \A i \in 1..2 :
            /\ Stored(qc.accounts, qc.price_histories[i])
            /\ qc.accounts[qc.price_histories[i]].t = "OraclePriceHistory"
            /\ qc.accounts[qc.price_histories[i]].oracle_address = qc.oracles[i]

\* Pool-registry accounts the ledger can hold while the pools are set up: one
\* with no pool for mints.1 yet, one with no pool for mints.0 yet, one with
\* both pools, and bytes that are no PoolRegistry.
PartialRegistry(mint, h) == [t |-> "PoolRegistry", entries |-> (mint :> h)]

LedgerRegistries ==
    { PartialRegistry(MINT_A, "oph_1"), PartialRegistry(MINT_B, "oph_2"),
      RegistryAccount("oph_1", "oph_2"), Garbage }

PoolsInit ==
    /\ pair \in PairChoices
    /\ chain \in [reg : LedgerRegistries,
                  prog : { ProgramAccount(d) : d \in ProgramDatas },
                  pair : {pair}]

\* The registry account on the ledger is rewritten.
ChainSetRegistry ==
    /\ \E r \in LedgerRegistries \ {chain.reg} :
          chain' = [chain EXCEPT !.reg = r]
    /\ UNCHANGED pair

PoolsSpecInit ==
    RingIdle /\ PoolsInit /\ QcIdle /\ JupInit /\ BandIdle /\ CallIdle /\ CheckIdle /\ SdkIdle

PoolsNext ==
    \/ JupUpdate
    \/ ChainSetRegistry /\ UNCHANGED <<ringVars, bandVars, callVars, checkVars, sdkVars, qcVars, jupVars>>

\* The jupiter mirror under update() calls against a ledger whose registry
\* may lack a pool or fail to deserialize.
SpecPools == PoolsSpecInit /\ [][PoolsNext]_vars

\* C23: after any sequence of update() calls on the jupiter mirror, failed
\* ones included, price_histories is empty or holds exactly two addresses,
\* so price_histories[1] is defined whenever price_histories is non-empty.
C23_NoneOrBothHistories ==
    \/ jup.price_histories = << >>
    \/ /\ Len(jup.price_histories) = 2
       /\ jup.price_histories[2] \in Histories

\* C24: once the jupiter mirror has resolved its price histories,
\* price_histories[i] is the address the stored pool-registry account lists
\* for mint i, and that address is a tracked key.
C24_HistoriesFollowRegistry ==
    (Len(jup.price_histories) = 2 /\ jup.accounts[REGISTRY].t = "PoolRegistry") =>
        \A i \in 1..2 :
            /\ jup.price_histories[i]
                 = find_pool(jup.accounts[REGISTRY], jup.d.mints[i]).oracle_price_histories_0
            /\ jup.price_histories[i] \in get_accounts_to_update(jup)

\* ---------------------------------------------------------------------------
\* Part 12: the swap account metas of the jupiter GfxAmm
\* (jupiter/src/jupiter.rs, jupiter/src/swap_account_metas.rs)
\* ---------------------------------------------------------------------------

\* swap_account_metas::get_account_metas_for_swap with the seven arguments
\* the call in get_swap_and_account_metas passes; the backup oracle metas,
\* for which the call gives no values, are left out. Pair::address is the
\* pair's key for both orders of its mints.
jup_get_account_metas_for_swap(pool_registry, user_wallet, mint_in, mint_out, input_token_oracle, output_token_oracle, fee_destination) ==
    LET ssl_pool_in_signer == signer_address(pool_registry, mint_in)
        ssl_pool_out_signer == signer_address(pool_registry, mint_out)
    IN  [pair |-> PAIR,
         pool_registry |-> pool_registry,
         user_wallet |-> user_wallet,
         ssl_pool_in_signer |-> ssl_pool_in_signer,
         ssl_pool_out_signer |-> ssl_pool_out_signer,
         user_ata_in |-> get_associated_token_address(user_wallet, mint_in),
         user_ata_out |-> get_associated_token_address(user_wallet, mint_out),
         ssl_out_main_vault |-> get_associated_token_address(ssl_pool_out_signer, mint_out),
         ssl_out_secondary_vault |-> get_associated_token_address(ssl_pool_out_signer, mint_in),
         ssl_in_main_vault |-> get_associated_token_address(ssl_pool_in_signer, mint_in),
         ssl_in_secondary_vault |-> get_associated_token_address(ssl_pool_in_signer, mint_out),
         ssl_out_fee_vault |-> get_associated_token_address(pool_registry, mint_out),
         fee_destination |-> fee_destination,
         output_token_price_history |->
             get_address("oracle_price_history", <<pool_registry, output_token_oracle>>),
         output_token_oracle |-> output_token_oracle,
         input_token_price_history |->
             get_address("oracle_price_history", <<pool_registry, input_token_oracle>>),
         input_token_oracle |-> input_token_oracle,
         event_emitter |-> EVENT_EMITTER,
         token_program |-> TOKEN_PROGRAM]

\* The fee destination get_swap_and_account_metas chooses.
jup_metas_fee_destination(s, source_mint) ==
    IF source_mint = s.d.mints[2] THEN s.d.fee_destination[1]
    ELSE s.d.fee_destination[2]

\* jupiter GfxAmm::get_swap_and_account_metas
jup_get_swap_and_account_metas(s, source_mint, token_transfer_authority) ==
    IF jup_unready(s)
    THEN [op |-> "get_swap_and_account_metas", err |-> "RequiredAccountUpdate",
          source_mint |-> source_mint]
    ELSE LET a_in == source_mint = s.d.mints[1]
             mint_in == IF a_in THEN s.d.mints[1] ELSE s.d.mints[2]
             mint_out == IF a_in THEN s.d.mints[2] ELSE s.d.mints[1]
             input_token_price_history ==
                 IF a_in THEN s.price_histories[1] ELSE s.price_histories[2]
             output_token_price_history ==
                 IF a_in THEN s.price_histories[2] ELSE s.price_histories[1]
         IN  [op |-> "get_swap_and_account_metas", err |-> "Ok",
              source_mint |-> source_mint, swap |-> "GooseFX",
              account_metas |->
                 jup_get_account_metas_for_swap(
                     s.d.pool_registry, token_transfer_authority, mint_in, mint_out,
                     input_token_price_history, output_token_price_history,
                     jup_metas_fee_destination(s, source_mint))]

\* A call of get_swap_and_account_metas() for one direction.
JupSwapMetas ==
    /\ \E source_mint \in {MINT_A, MINT_B} :
          jup_ret' = jup_get_swap_and_account_metas(jup, source_mint, USER_WALLET)
    /\ UNCHANGED <<ringVars, bandVars, callVars, checkVars, sdkVars, pair, chain, qcVars, jup, rounds, keys_before>>

SwapNext ==
    \/ JupRound
    \/ JupQuote
    \/ JupSwapMetas

\* The jupiter mirror under fetch-everything rounds, quotes and requests for
\* the swap account metas.
SpecSwap == JupSpecInit /\ [][SwapNext]_vars

\* C25: for each swap direction the fee destination in the account metas of
\* get_swap_and_account_metas is the fee destination quote() passes to the
\* swap it builds for that direction.
C25_MetasFeeDestinationOfQuote ==
    (jup_ret.op = "get_swap_and_account_metas" /\ jup_ret.err = "Ok") =>
        jup_ret.account_metas.fee_destination
            = jup_swap_metas(jup, jup_ret.source_mint = jup.d.mints[1]).fee_destination

\* ---------------------------------------------------------------------------
\* Part 13: Pair::find_fee_attrs on its own (state/pair.rs)
\* ---------------------------------------------------------------------------

\* The mints of the calls, one of them in no pair, and the Pair accounts
\* find_fee_attrs is called on.
FeeMints == {MINT_A, MINT_B, "mint_c"}

FeePairs ==
    { [pool_registry |-> REGISTRY, mints |-> m,
       fee_collector |-> c, fee_rates |-> r] :
         m \in { x \in FeeMints \X FeeMints : x[1] # x[2] /\ x[1] # "mint_c" },
         c \in { <<"collector_1", "collector_2">>, <<"collector_2", "collector_1">> },
         r \in { <<5, 30>>, <<30, 30>> } }

FindFeeAttrs ==
    \E p \in FeePairs, mint_in \in FeeMints, mint_out \in FeeMints :
        /\ call_args' = [op |-> "find_fee_attrs", p |-> p,
                         mint_in |-> mint_in, mint_out |-> mint_out]
        /\ call_ret' = find_fee_attrs(p, mint_in, mint_out)

FeeAttrsNext ==
    FindFeeAttrs
        /\ UNCHANGED <<ringVars, bandVars, checkVars, sdkVars, pair, chain, qcVars, jupVars>>

SpecFeeAttrs == PairSpecInit /\ [][FeeAttrsNext]_vars

\* C26: find_fee_attrs(mint_in, mint_out) returns ordering InOut when
\* pair.mints = (mint_in, mint_out), ordering OutIn when
\* pair.mints = (mint_out, mint_in), and MintNotFound when the two mints are
\* the pair's mints in neither order.
C26_OrderingOfMints ==
    call_args.op = "find_fee_attrs" =>
        LET mints == call_args.p.mints
        IN  IF mints = <<call_args.mint_in, call_args.mint_out>>
            THEN call_ret.ok /\ call_ret.ordering = "InOut"
            ELSE IF mints = <<call_args.mint_out, call_args.mint_in>>
            THEN call_ret.ok /\ call_ret.ordering = "OutIn"
            ELSE call_ret = [ok |-> FALSE, err |-> "MintNotFound"]

\* ---------------------------------------------------------------------------
\* Part 14: error codes (programs/gfx-ssl-v2/src/errors.rs)
\* ---------------------------------------------------------------------------

ERROR_CODE_OFFSET == 6100
NUM_ERR_VARIANTS == 38

\* The variants of SSLV2Error in declaration order; #[error_code] makes the
\* enum repr(u32), the variant at position k (from 0) has discriminant k.
SSLV2ErrorVariants ==
    << "Suspended", "NotAdmin", "MintsNotSorted", "PriceHistoryEmpty",
       "InvalidCrankAccounts", "OracleNotHealthyStatus",
       "OracleNotHealthyDelay", "OracleNotHealthyConfidence",
       "SlippageTooLarge", "PercentageOutOfRange", "EmaOrStdWindowTooLarge",
       "MintNotMatchPair", "FeeCollectorIncorrect", "SSLStale",
       "PoolRegistryIsFull", "MintNotFound", "MintAlreadyIncluded",
       "InvalidPythOracle", "InvalidTokenOwner", "InvalidTokenMint",
       "StalePriceHistory", "InvalidOracleType", "MathError",
       "MintsCannotBeSame", "InvalidFeeDestination",
       "CannotCloseLiquidityAccount", "WithdrawTooLarge",
       "InvalidOracleAddress", "PoolTokenImbalance",
       "PoolRegistryNotMatchPair", "ZeroInitialDeposit",
       "OraclePriceRecorded", "AmountTooSmall", "NotEnoughLiquidity",
       "NotATokenAccount", "OracleThrottled", "NotZeroParameter",
       "PoolRegistryNotMatchOraclePriceHistory" >>

\* An SSLV2Error whose bits are discriminant d.
ErrorOfDiscriminant(d) ==
    IF d < Len(SSLV2ErrorVariants)
    THEN [t |-> "SSLV2Error", variant |-> SSLV2ErrorVariants[d + 1]]
    ELSE [t |-> "NoVariant", discriminant |-> d]

\* What try_into can return for a code. Inside the inclusive range the code
\* transmutes code - ERROR_CODE_OFFSET; for a discriminant no variant has,
\* the transmute is undefined behaviour: the value may keep the bits it was
\* given, be taken for any variant, or the call may give Err.
try_into(code) ==
    IF code >= ERROR_CODE_OFFSET /\ code <= ERROR_CODE_OFFSET + NUM_ERR_VARIANTS
    THEN LET d == code - ERROR_CODE_OFFSET
         IN  IF d < Len(SSLV2ErrorVariants)
             THEN { [ok |-> TRUE, v |-> ErrorOfDiscriminant(d)] }
             ELSE { [ok |-> TRUE, v |-> ErrorOfDiscriminant(d)], [ok |-> FALSE] }
                  \cup { [ok |-> TRUE, v |-> ErrorOfDiscriminant(k)] :
                           k \in 0..(Len(SSLV2ErrorVariants) - 1) }
    ELSE { [ok |-> FALSE] }

\* The codes converted: code 0 and the codes up to CodeMargin below and
\* above the range the code tests.
CodeMargin == 35
ErrorCodes ==
    {0} \cup ((ERROR_CODE_OFFSET - CodeMargin)
                ..(ERROR_CODE_OFFSET + NUM_ERR_VARIANTS + CodeMargin))

TryInto ==
    \E code \in ErrorCodes :
        /\ call_args' = [op |-> "try_into", code |-> code]
        /\ call_ret' \in try_into(code)

ErrorsNext ==
    TryInto
        /\ UNCHANGED <<ringVars, bandVars, checkVars, sdkVars, pair, chain, qcVars, jupVars>>

SpecErrors == PairSpecInit /\ [][ErrorsNext]_vars

\* C27: converting a u32 code gives Ok(v) exactly for the codes 6100 + the
\* index of a defined variant (6100 through 6137), with v the variant of that
\* index, and Err(()) for every other code.
C27_OnlyDefinedCodesConvert ==
    call_args.op = "try_into" =>
        IF call_args.code \in 6100..6137
        THEN call_ret = [ok |-> TRUE,
                         v |-> [t |-> "SSLV2Error",
                                variant |-> SSLV2ErrorVariants[call_args.code - 6100 + 1]]]
        ELSE call_ret = [ok |-> FALSE]

\* ---------------------------------------------------------------------------
\* Part 15: what bollinger_band returns and what it averages
\* ---------------------------------------------------------------------------

\* The errors bollinger_band returns as SSLV2Error values.
BandTypedErrors == {"MathError", "EmaOrStdWindowTooLarge", "PriceHistoryEmpty"}

\* C28: every bollinger_band call returns Ok or a typed SSLV2Error and never
\* panics; with a price of 0 in the input (denominator) history inside the
\* window it returns an error.
C28_TypedResultOrOk ==
    band_ret.op = "bollinger_band" =>
        LET pairs == bollinger_pairs(History, band_ret.mean_window,
                                     band_ret.std_window, input_token_history)
            guards == bollinger_guards(History, band_ret.mean_window,
                                       band_ret.std_window, input_token_history)
        IN  /\ band_ret.res.err \in BandTypedErrors \cup {"Ok"}
            /\ (guards = "Ok" /\ \E i \in DOMAIN pairs : pairs[i][2].num = 0)
                  => band_ret.res.err \in BandTypedErrors

\* The crank instruction pushes a price to every history it is given: here
\* one to the output token's history and one to the input token's, up to
\* MaxCranks times, which takes the counters past the 256 entries kept.
MaxCranks == 258
CrankInputPrices == { [num |-> 9, scale |-> 0] }

\* Window sizes of the calls: the smallest, the capacity, and one above it.
CrankWindows == {1, NUM_HISTORICAL_PRICE_ENTRIES, NUM_HISTORICAL_PRICE_ENTRIES + 1}

CrankPriceHistories ==
    /\ num_updates < MaxCranks
    /\ \E po \in BandPrices(History, OutputPrices),
          pi \in BandPrices(input_token_history, CrankInputPrices) :
          LET e == PriceEntry(po, num_updates + 1)
              h == push(History, e)
          IN  /\ num_updates' = h.num_updates
              /\ price_history' = h.price_history
              /\ pushed' = Append(pushed, e)
              /\ input_token_history' =
                    push(input_token_history,
                         PriceEntry(pi, input_token_history.num_updates + 1))
    /\ band_ret' = NoCall

\* A call of bollinger_band with windows around the capacity.
CrankedBollingerBand ==
    /\ band_ret = NoCall
    /\ \E mean_window \in CrankWindows, std_window \in CrankWindows :
          band_ret' =
              [op |-> "bollinger_band",
               mean_window |-> mean_window, std_window |-> std_window,
               res |-> bollinger_band(History, mean_window, std_window,
                                      input_token_history)]
    /\ UNCHANGED <<ringVars, input_token_history>>

CrankNext ==
    \/ CrankPriceHistories /\ UNCHANGED <<callVars, checkVars, sdkVars, pair, chain, qcVars, jupVars>>
    \/ CrankedBollingerBand /\ UNCHANGED <<callVars, checkVars, sdkVars, pair, chain, qcVars, jupVars>>

\* bollinger_band on two histories cranked together past their capacity.
SpecCrank == BandSpecInit /\ [][CrankNext]_vars

\* The price ratio at paired newest-first position i of the two histories.
RatioAt(i) ==
    DecDiv(PriceOf(IterItems(History)[i]), PriceOf(IterItems(input_token_history)[i]))

\* How many paired positions the two newest-first iterators yield.
PairedLen == Min2(Len(IterItems(History)), Len(IterItems(input_token_history)))

\* C29: whenever bollinger_band returns Ok, the mean is the sum of exactly
\* mean_window price ratios divided by mean_window, and the deviation is
\* computed over exactly std_window price ratios.
C29_WholeWindowsAveraged ==
    (band_ret.op = "bollinger_band" /\ band_ret.res.err = "Ok") =>
        /\ band_ret.mean_window <= PairedLen
        /\ band_ret.std_window <= PairedLen
        /\ band_ret.res.mean
             = DecDiv(DecSum([i \in 1..band_ret.mean_window |-> RatioAt(i)],
                             band_ret.mean_window),
                      DecFrom(band_ret.mean_window))

\* ---------------------------------------------------------------------------
\* Part 16: the two constructors of the sdk GfxAmm (sdk/src/jupiter.rs)
\* ---------------------------------------------------------------------------

\* sdk GfxAmm::get_accounts_to_update: the six static addresses, then the
\* price history addresses that are known.
sdk_get_accounts_to_update(s) ==
    <<s.pool_registry_address, s.pair_pubkey,
      s.ssl_a_vault_a, s.ssl_a_vault_b, s.ssl_b_vault_a, s.ssl_b_vault_b>>
    \o (IF s.mint_a_price_history_address.t = "Some"
        THEN <<s.mint_a_price_history_address.v>> ELSE << >>)
    \o (IF s.mint_b_price_history_address.t = "Some"
        THEN <<s.mint_b_price_history_address.v>> ELSE << >>)

\* The static addresses: those reported whatever has been loaded.
sdk_static_addresses(s) == SubSeq(sdk_get_accounts_to_update(s), 1, 6)

\* The GfxAmm of the ledger's Pair account, built either way.
SdkFromKeyedAccount ==
    sdk_from_keyed_account(Pair_address(pair.pool_registry, pair.mints[1], pair.mints[2]),
                           PairAccount(pair))
SdkNew ==
    sdk_new(SdkRegistryAccount, pair, chain[SdkHistoryA], chain[SdkHistoryB],
            chain[SdkVault(SdkMintA, SdkMintA)], chain[SdkVault(SdkMintA, SdkMintB)],
            chain[SdkVault(SdkMintB, SdkMintA)], chain[SdkVault(SdkMintB, SdkMintB)])

\* C30: for the same Pair account, GfxAmm::new and GfxAmm::from_keyed_account
\* give the same pool_registry_address, pair_pubkey, mints and four vault
\* addresses, so the GfxAmm in use reports the static addresses of both in
\* get_accounts_to_update().
C30_ConstructorsAgree ==
    (SdkNew.ok /\ SdkFromKeyedAccount.ok) =>
        /\ SdkNew.amm.pool_registry_address = SdkFromKeyedAccount.amm.pool_registry_address
        /\ SdkNew.amm.pair_pubkey = SdkFromKeyedAccount.amm.pair_pubkey
        /\ SdkNew.amm.ssl_a_mint = SdkFromKeyedAccount.amm.ssl_a_mint
        /\ SdkNew.amm.ssl_b_mint = SdkFromKeyedAccount.amm.ssl_b_mint
        /\ sdk_static_addresses(SdkNew.amm) = sdk_static_addresses(SdkFromKeyedAccount.amm)
        /\ sdk_static_addresses(sdk) = sdk_static_addresses(SdkFromKeyedAccount.amm)

====
